---------------------------- MODULE Spec2Model ----------------------------
(***************************************************************************)
(* Indexing-and-scoring engine of the emotion-aware retrieval system:      *)
(* 3_indexer.py (build_index), 4_chunk_level_emotion_analyzer.py           *)
(* (get_negation_aware_emotions, analyze_chunks), 4.5_z_score_generator.py *)
(* (generate_z_scores) and 5_ir_system.py (IRSystem); the corpus processor  *)
(* 2_corpus_processor.py (process_text_pipeline, build_corpus_from_files), *)
(* the evaluation harness 6_ir_evaluator.py (IREvaluator) and the IRSystem *)
(* of ir_system.py that the harness imports.                               *)
(*                                                                         *)
(* Conventions.                                                            *)
(*  - A Python dict is a sequence of <<key, value>> pairs with distinct    *)
(*    keys, in insertion order (the iteration order of a dict).            *)
(*  - A float is a fixed-point integer: the value times Scale, every       *)
(*    operation rounding toward zero.                                      *)
(*  - Document ids are strings; their order (Python's string order) is     *)
(*    the position in IdOrder.                                             *)
(***************************************************************************)
EXTENDS Integers, Sequences, FiniteSets, TLC

\* ------------------------------------------------------------------------
\* Bounds of the model
\* ------------------------------------------------------------------------
\* documents of a corpus the index is built from
MaxDocs == 3
\* tokens of a document
MaxLen == 3
\* documents of a corpus that is taken through to the queries
MaxRankDocs == 2
\* tokens of a segment given to the emotion scanner alone
MaxScanLen == 5
\* characters of a raw text given to the two tokenizers
MaxTextLen == 4
\* entries of a ranked list given to the evaluator
MaxResults == 52
\* test cases of one evaluation run
MaxCases == 2
\* resolution of the fixed-point numbers that stand for floats: 1 / Scale
Scale == 1000

\* ------------------------------------------------------------------------
\* Python dict (insertion ordered)
\* ------------------------------------------------------------------------
DictKeys(d) == [i \in 1..Len(d) |-> d[i][1]]
KeySet(d) == {d[i][1] : i \in 1..Len(d)}
HasKey(d, k) == \E i \in 1..Len(d) : d[i][1] = k
Get(d, k, default) ==
    IF HasKey(d, k) THEN d[CHOOSE i \in 1..Len(d) : d[i][1] = k][2] ELSE default
Put(d, k, v) ==
    IF HasKey(d, k)
    THEN [i \in 1..Len(d) |-> IF d[i][1] = k THEN <<k, v>> ELSE d[i]]
    ELSE Append(d, <<k, v>>)
IsDict(d) == \A i, j \in 1..Len(d) : d[i][1] = d[j][1] => i = j

RECURSIVE SumSeq(_)
SumSeq(s) == IF s = <<>> THEN 0 ELSE Head(s) + SumSeq(Tail(s))
Occurrences(t, tokens) == Cardinality({i \in 1..Len(tokens) : tokens[i] = t})

\* ------------------------------------------------------------------------
\* Fixed-point floats
\* ------------------------------------------------------------------------
Abs(x) == IF x >= 0 THEN x ELSE 0 - x
Sign(x) == IF x > 0 THEN 1 ELSE IF x < 0 THEN 0 - 1 ELSE 0
\* a / b of two fixed-point numbers (b > 0)
FDiv(a, b) == Sign(a) * ((Abs(a) * Scale) \div b)
\* a * b of two fixed-point numbers
FMul(a, b) == Sign(a) * Sign(b) * ((Abs(a) * Abs(b)) \div Scale)
Fix(n) == n * Scale
RECURSIVE ISqrtIn(_, _, _)
ISqrtIn(n, lo, hi) ==
    IF lo >= hi THEN lo
    ELSE LET mid == (lo + hi + 1) \div 2
         IN IF mid * mid <= n THEN ISqrtIn(n, mid, hi) ELSE ISqrtIn(n, lo, mid - 1)
\* floor of the square root of a natural number below 2^31
ISqrt(n) == ISqrtIn(n, 0, IF n < 46340 THEN n ELSE 46340)
\* numpy sqrt of a fixed-point number
FSqrt(x) == ISqrt(x * Scale)
\* math.log of the naturals 1..10, times 1000
LnTable == <<0, 693, 1099, 1386, 1609, 1792, 1946, 2079, 2197, 2303>>
\* math.log(num / den) for naturals num, den in 1..10
Ln(num, den) == ((LnTable[num] - LnTable[den]) * Scale) \div 1000

\* ------------------------------------------------------------------------
\* The tokenized corpus (processed_corpus.pkl): {doc_id: [tokens]}
\* ------------------------------------------------------------------------
IdOrder == <<"A", "B", "C", "D", "E">>
DocIds == {IdOrder[i] : i \in 1..MaxDocs}
Rank(d) == CHOOSE i \in 1..Len(IdOrder) : IdOrder[i] = d

\* the token sequences the documents are drawn from
TokenPool ==
    { <<"fear", "fear", "joy">>, <<"joy", "joy">>, <<"trust">>,
      <<"not", "joy">>, <<>>, <<"joy", "is", "not", "fear">> }
DocTokens == {s \in TokenPool : Len(s) <= MaxLen}
RankTokens ==
    { <<"fear", "fear", "joy">>, <<"joy", "joy">>, <<"fear", "fear">>, <<"not", "joy">> }

\* every dict of n documents: distinct ids in any order, each with a token sequence
CorporaOfLen(n, ids, pool) == {c \in [1..n -> ids \X pool] : IsDict(c)}
CorporaUpTo(max, ids, pool) == UNION {CorporaOfLen(n, ids, pool) : n \in 0..max}
Corpora == CorporaUpTo(MaxDocs, DocIds, DocTokens)
RankCorpora ==
    CorporaUpTo(MaxRankDocs, {IdOrder[i] : i \in 1..MaxRankDocs}, RankTokens)
\* corpora with segments that get no emotion vector: an empty segment, a
\* segment whose only tagged token is negated, and a segment of one tagged token
SparseTokens == { <<>>, <<"not", "joy">>, <<"trust">> }
SparseCorpora ==
    CorporaUpTo(MaxRankDocs, {IdOrder[i] : i \in 1..MaxRankDocs}, SparseTokens)

\* corpora of MaxDocs documents in id order, each of one term: a term is in
\* every document, in all but one, or in fewer
WideTokens == { <<"joy", "joy">>, <<"trust">> }
WideCorpora ==
    {c \in [1..MaxDocs -> DocIds \X WideTokens] : \A i \in 1..MaxDocs : c[i][1] = IdOrder[i]}

\* the segments given to the emotion scanner alone
ScanWords == {"not", "is", "joyful", "fear"}
ScanSegments == UNION {[1..n -> ScanWords] : n \in 0..MaxScanLen}

\* ------------------------------------------------------------------------
\* 2_corpus_processor.py (process_text_pipeline) and the tokenization of
\* IRSystem.process_query. A text is a sequence of characters, a token too.
\* ------------------------------------------------------------------------
\* a lower-case letter, an upper-case letter, a digit, a hyphen, a space
Alphabet == {"a", "B", "1", "-", " "}
Texts == UNION {[1..n -> Alphabet] : n \in 0..MaxTextLen}
Letters == {"a", "b", "B"}
\* str.lower()
LowerChar(ch) == IF ch = "B" THEN "b" ELSE ch
Lower(text) == [i \in 1..Len(text) |-> LowerChar(text[i])]
\* str.isalpha(): not empty, every character a letter
IsAlpha(token) == token # <<>> /\ \A i \in 1..Len(token) : token[i] \in Letters
\* \w of the regular expression
IsWordChar(ch) == ch \in Letters \cup {"1"}

EndToken(tokens, current) == IF current = <<>> THEN tokens ELSE Append(tokens, current)
\* nltk word_tokenize on this alphabet: the text is split at white space, a
\* double hyphen is a token of its own, a single hyphen stays in its word
RECURSIVE WordTokenizeFrom(_, _, _, _)
WordTokenizeFrom(text, i, current, tokens) ==
    IF i > Len(text) THEN EndToken(tokens, current)
    ELSE IF text[i] = " "
         THEN WordTokenizeFrom(text, i + 1, <<>>, EndToken(tokens, current))
    ELSE IF text[i] = "-" /\ i < Len(text) /\ text[i + 1] = "-"
         THEN WordTokenizeFrom(text, i + 2, <<>>,
                               Append(EndToken(tokens, current), <<"-", "-">>))
    ELSE WordTokenizeFrom(text, i + 1, Append(current, text[i]), tokens)
word_tokenize(text) == WordTokenizeFrom(text, 1, <<>>, <<>>)

\* the loop of process_text_pipeline: lower-case, keep if alphabetic
RECURSIVE KeepAlpha(_, _)
KeepAlpha(tokens, processed_tokens) ==
    IF tokens = <<>> THEN processed_tokens
    ELSE LET token == Lower(Head(tokens))
         IN KeepAlpha(Tail(tokens),
                      IF IsAlpha(token) THEN Append(processed_tokens, token)
                      ELSE processed_tokens)
process_text_pipeline(raw_text) == KeepAlpha(word_tokenize(raw_text), <<>>)

\* a maximal run of word characters is a match of \b[a-z]+\b iff all of it
\* is lower-case letters (a run with a digit has no word boundary inside)
EndRun(matches, run) ==
    IF run # <<>> /\ (\A k \in 1..Len(run) : run[k] \in {"a", "b"})
    THEN Append(matches, run) ELSE matches
RECURSIVE FindAllFrom(_, _, _, _)
FindAllFrom(text, i, run, matches) ==
    IF i > Len(text) THEN EndRun(matches, run)
    ELSE IF IsWordChar(text[i])
         THEN FindAllFrom(text, i + 1, Append(run, text[i]), matches)
    ELSE FindAllFrom(text, i + 1, <<>>, EndRun(matches, run))
\* raw_tokens = re.findall(r'\b[a-z]+\b', query_text.lower())
raw_tokens_of(query_text) == FindAllFrom(Lower(query_text), 1, <<>>, <<>>)

\* 2_corpus_processor.py: build_corpus_from_files
\* a file of the corpus directory: open() and read() succeed and give
\* raw_text, or raise
FileTexts == { <<"a">>, <<"a", " ", "B">>, <<"1">> }
Files ==
    {[readable |-> FALSE, raw_text |-> <<>>]}
        \cup {[readable |-> TRUE, raw_text |-> text] : text \in FileTexts}
\* glob.glob(corpus_dir/*.txt): MaxDocs files
Directories ==
    {f \in [1..MaxDocs -> DocIds \X Files] : \A i \in 1..MaxDocs : f[i][1] = IdOrder[i]}
\* a line the function prints
Line(kind, doc_id, count) == [kind |-> kind, doc_id |-> doc_id, count |-> count]

\* the loop over file_paths: try: read, process, store; except: print the
\* warning and go on with the next file
RECURSIVE ProcessFiles(_, _)
ProcessFiles(run, file_paths) ==
    IF file_paths = <<>> THEN run
    ELSE LET doc_id == Head(file_paths)[1]
             file == Head(file_paths)[2]
         IN ProcessFiles(
                IF file.readable
                THEN [run EXCEPT !.processed_corpus =
                                    Put(@, doc_id, process_text_pipeline(file.raw_text))]
                ELSE [run EXCEPT !.output = Append(@, Line("Warning", doc_id, 0))],
                Tail(file_paths))
\* returned: the dict, <<>> also standing for None
build_corpus_from_files(file_paths) ==
    IF file_paths = <<>>
    THEN [processed_corpus |-> <<>>, output |-> <<Line("Error", "", 0)>>]
    ELSE LET run == ProcessFiles([processed_corpus |-> <<>>, output |-> <<>>], file_paths)
         IN [run EXCEPT !.output =
                Append(@, Line("Successfully processed", "", Len(run.processed_corpus)))]

\* ------------------------------------------------------------------------
\* 3_indexer.py: build_index
\* ------------------------------------------------------------------------
\* (mutation: presence instead of a count)
CounterAdd_Presence(acc, token) == Put(acc, token, 1)
\* Counter(tokens): one more occurrence of token
CounterAdd(acc, token) == Put(acc, token, Get(acc, token, 0) + 1)
RECURSIVE CounterFrom(_, _)
CounterFrom(tokens, acc) ==
    IF tokens = <<>> THEN acc
    ELSE CounterFrom(Tail(tokens), CounterAdd(acc, Head(tokens)))
Counter(tokens) == CounterFrom(tokens, <<>>)

\* (mutation: the posting dict of the token is replaced, not updated)
IndexPut_Replace(inverted_index, token, doc_id, count) ==
    Put(inverted_index, token, <<<<doc_id, count>>>>)
\* inverted_index[token][doc_id] = count
IndexPut(inverted_index, token, doc_id, count) ==
    Put(inverted_index, token, Put(Get(inverted_index, token, <<>>), doc_id, count))
\* doc_frequency[token] += 1
DfIncr(doc_frequency, token) == Put(doc_frequency, token, Get(doc_frequency, token, 0) + 1)

\* the inner loop over term_counts.items()
RECURSIVE IndexTerms(_, _, _)
IndexTerms(st, doc_id, term_counts) ==
    IF term_counts = <<>> THEN st
    ELSE LET token == Head(term_counts)[1]
             count == Head(term_counts)[2]
         IN IndexTerms([st EXCEPT
                          !.inverted_index = IndexPut(@, token, doc_id, count),
                          !.doc_frequency = DfIncr(@, token)],
                       doc_id, Tail(term_counts))

\* (mutation: the number of distinct tokens)
DocLength_Distinct(tokens) == Cardinality({tokens[i] : i \in 1..Len(tokens)})
\* doc_lengths[doc_id] = len(tokens)
DocLength(tokens) == Len(tokens)

\* the outer loop over corpus.items()
RECURSIVE IndexDocs(_, _)
IndexDocs(st, docs) ==
    IF docs = <<>> THEN st
    ELSE LET doc_id == Head(docs)[1]
             tokens == Head(docs)[2]
             withLen == [st EXCEPT !.doc_lengths = Put(@, doc_id, DocLength(tokens))]
         IN IndexDocs(IndexTerms(withLen, doc_id, Counter(tokens)), Tail(docs))

\* (mutation: one added to the logarithm)
Idf_PlusOne(num_documents, freq) == Ln(num_documents, freq + 1) + Fix(1)
\* (mutation: no smoothing)
Idf_Unsmoothed(num_documents, freq) == Ln(num_documents, freq)
\* idf_scores[token] = math.log(num_documents / (freq + 1))
Idf(num_documents, freq) == Ln(num_documents, freq + 1)

build_index(c) ==
    LET num_documents == Len(c)
        st == IndexDocs([inverted_index |-> <<>>, doc_frequency |-> <<>>,
                         doc_lengths |-> <<>>], c)
        df == st.doc_frequency
    IN [inverted_index |-> st.inverted_index,
        idf_scores |-> [i \in 1..Len(df) |-> <<df[i][1], Idf(num_documents, df[i][2])>>],
        doc_lengths |-> st.doc_lengths]


\* ------------------------------------------------------------------------
\* 4_chunk_level_emotion_analyzer.py
\* ------------------------------------------------------------------------
NEGATION_TERMS ==
    { "not", "never", "no", "nothing", "neither", "nor", "hardly", "scarcely",
      "barely", "didnt", "dont", "doesnt", "wont", "wouldnt", "couldnt",
      "shouldnt", "cant", "cannot", "n't" }
LOOKBACK_WINDOW == 3

\* NRCLex(word).raw_emotion_scores of a single word: each tag of the word
\* in the lexicon, counted once
Tags(word) ==
    CASE word = "fear" -> <<"fear">>
      [] word = "joy" -> <<"joy">>
      [] word = "trust" -> <<"trust">>
      [] word = "joyful" -> <<"joy", "trust">>
      [] OTHER -> <<>>
raw_emotion_scores(word) == [i \in 1..Len(Tags(word)) |-> <<Tags(word)[i], 1>>]

\* (mutation: the window reaches one token further back)
PreviousWords_Wider(tokens, i) ==
    LET start_index == IF i - LOOKBACK_WINDOW - 1 > 1 THEN i - LOOKBACK_WINDOW - 1 ELSE 1
    IN SubSeq(tokens, start_index, i - 1)
\* previous_words = tokens[max(0, i - LOOKBACK_WINDOW):i], i the 1-based position
PreviousWords(tokens, i) ==
    LET start_index == IF i - LOOKBACK_WINDOW > 1 THEN i - LOOKBACK_WINDOW ELSE 1
    IN SubSeq(tokens, start_index, i - 1)
IsNegated(tokens, i) ==
    \E j \in 1..Len(PreviousWords(tokens, i)) :
        PreviousWords(tokens, i)[j] \in NEGATION_TERMS

\* chunk_vector[emotion] += score, for every item of word_emotions
RECURSIVE AddScores(_, _)
AddScores(chunk_vector, word_emotions) ==
    IF word_emotions = <<>> THEN chunk_vector
    ELSE LET emotion == Head(word_emotions)[1]
             score == Head(word_emotions)[2]
         IN AddScores(Put(chunk_vector, emotion, Get(chunk_vector, emotion, 0) + score),
                      Tail(word_emotions))

\* one iteration of the loop over enumerate(tokens)
ScanToken(chunk_vector, tokens, i) ==
    LET word_emotions == raw_emotion_scores(tokens[i])
    IN IF word_emotions = <<>> THEN chunk_vector
       ELSE IF IsNegated(tokens, i) THEN chunk_vector
       ELSE AddScores(chunk_vector, word_emotions)

RECURSIVE ScanFrom(_, _, _)
ScanFrom(chunk_vector, tokens, i) ==
    IF i > Len(tokens) THEN chunk_vector
    ELSE ScanFrom(ScanToken(chunk_vector, tokens, i), tokens, i + 1)
get_negation_aware_emotions(tokens) == ScanFrom(<<>>, tokens, 1)

\* (mutation: a segment gets an entry whatever its vector)
RECURSIVE AnalyzeFrom_KeepEmpty(_, _)
AnalyzeFrom_KeepEmpty(results, docs) ==
    IF docs = <<>> THEN results
    ELSE AnalyzeFrom_KeepEmpty(
             Append(results, <<Head(docs)[1], get_negation_aware_emotions(Head(docs)[2])>>),
             Tail(docs))
\* analyze_chunks: results.append((doc_id, dict(raw_scores))) if raw_scores
RECURSIVE AnalyzeFrom(_, _)
AnalyzeFrom(results, docs) ==
    IF docs = <<>> THEN results
    ELSE LET doc_id == Head(docs)[1]
             raw_scores == get_negation_aware_emotions(Head(docs)[2])
         IN AnalyzeFrom(IF raw_scores # <<>> THEN Append(results, <<doc_id, raw_scores>>)
                        ELSE results,
                        Tail(docs))
analyze_chunks(c) == AnalyzeFrom(<<>>, c)

\* ------------------------------------------------------------------------
\* 4.5_z_score_generator.py: generate_z_scores
\* ------------------------------------------------------------------------
emotions ==
    <<"joy", "sadness", "anger", "fear", "trust", "disgust", "anticipation", "surprise">>

\* density = count / length
Density(count, length) == FDiv(Fix(count), Fix(length))

\* (mutation: one density per segment of the length table, 0 for a segment
\* without a count)
CorpusValues_EverySegment(emotion_data, doc_lengths, emo) ==
    [i \in 1..Len(doc_lengths) |->
        Density(Get(Get(emotion_data, doc_lengths[i][1], <<>>), emo, 0),
                IF doc_lengths[i][2] < 1 THEN 1 ELSE doc_lengths[i][2])]
\* corpus_values[emo]: one density per item of emotion_data
CorpusValues(emotion_data, doc_lengths, emo) ==
    [i \in 1..Len(emotion_data) |->
        Density(Get(emotion_data[i][2], emo, 0), Get(doc_lengths, emotion_data[i][1], 1))]

\* np.mean(values) of a non-empty array
Mean(values) == FDiv(SumSeq(values), Fix(Len(values)))
\* np.std(values) of a non-empty array: the population standard deviation
Std(values) ==
    LET m == Mean(values)
        sq == [i \in 1..Len(values) |-> (values[i] - m) * (values[i] - m)]
    IN ISqrt(SumSeq(sq) \div Len(values))
\* stats[emo] = {'mean': mean, 'std': std}; both are nan for an empty array
\* (nan |-> TRUE, the numbers then unused)
StatsOf(values) ==
    IF values = <<>> THEN [mean |-> 0, std |-> 0, nan |-> TRUE]
    ELSE [mean |-> Mean(values), std |-> Std(values), nan |-> FALSE]

\* the length some item of emotion_data is divided by is 0
StatsDivByZero(emotion_data, doc_lengths) ==
    \E i \in 1..Len(emotion_data) : Get(doc_lengths, emotion_data[i][1], 1) = 0

\* raised: the ZeroDivisionError of count / length leaves the function
generate_z_scores(emotion_data, doc_lengths) ==
    IF StatsDivByZero(emotion_data, doc_lengths) THEN [raised |-> TRUE, stats |-> <<>>]
    ELSE [raised |-> FALSE,
          stats |-> [i \in 1..Len(emotions) |->
                       <<emotions[i],
                         StatsOf(CorpusValues(emotion_data, doc_lengths, emotions[i]))>>]]


\* ------------------------------------------------------------------------
\* 5_ir_system.py: IRSystem
\* ------------------------------------------------------------------------
\* (mutation: an element goes before the elements of equal key)
RECURSIVE InsertDesc_Unstable(_, _)
InsertDesc_Unstable(sorted, x) ==
    IF sorted = <<>> THEN <<x>>
    ELSE IF Head(sorted)[2] > x[2]
         THEN <<Head(sorted)>> \o InsertDesc_Unstable(Tail(sorted), x)
    ELSE <<x>> \o sorted
\* sorted(results, key=lambda x: x[1], reverse=True): a stable sort, equal
\* keys keep the order they have in the input
RECURSIVE InsertDesc(_, _)
InsertDesc(sorted, x) ==
    IF sorted = <<>> THEN <<x>>
    ELSE IF Head(sorted)[2] >= x[2] THEN <<Head(sorted)>> \o InsertDesc(Tail(sorted), x)
    ELSE <<x>> \o sorted
RECURSIVE SortFrom(_, _)
SortFrom(sorted, rest) ==
    IF rest = <<>> THEN sorted ELSE SortFrom(InsertDesc(sorted, Head(rest)), Tail(rest))
\* (mutation: the list is returned as built)
SortedByScore_Unsorted(results) == results
SortedByScore(results) == SortFrom(<<>>, results)

\* wordnet: the single-word lemma names of the synsets of a word
get_synonyms(word) ==
    CASE word = "joy" -> {"joy"}
      [] word = "dread" -> {"dread", "fear"}
      [] OTHER -> {}

\* expanded_tokens = set(raw_tokens) updated with the synonyms of each token
ExpandedTokens(raw_tokens) ==
    {raw_tokens[i] : i \in 1..Len(raw_tokens)}
        \cup UNION {get_synonyms(raw_tokens[i]) : i \in 1..Len(raw_tokens)}
\* list(expanded_tokens): the elements of the set, in the order of its hash table
ListsOf(S) ==
    {l \in [1..Cardinality(S) -> S] : \A i, j \in 1..Cardinality(S) : l[i] = l[j] => i = j}

\* (mutation: the expansion is a list, the raw tokens as typed followed by
\* the synonyms that are not among them)
process_query_List(raw_tokens) ==
    {raw_tokens \o l :
        l \in ListsOf(ExpandedTokens(raw_tokens) \ {raw_tokens[i] : i \in 1..Len(raw_tokens)})}
\* process_query after the tokenization: the lists list(expanded_tokens) can be
process_query(raw_tokens) == ListsOf(ExpandedTokens(raw_tokens))

\* doc_scores[doc_id] += tf * idf, for every item of matching_docs
RECURSIVE AddPostings(_, _, _)
AddPostings(doc_scores, matching_docs, idf) ==
    IF matching_docs = <<>> THEN doc_scores
    ELSE LET doc_id == Head(matching_docs)[1]
             tf == Head(matching_docs)[2]
         IN AddPostings(Put(doc_scores, doc_id, Get(doc_scores, doc_id, 0) + tf * idf),
                        Tail(matching_docs), idf)

\* the loop over the query tokens
RECURSIVE ScoreTokens(_, _, _)
ScoreTokens(s, doc_scores, tokens) ==
    IF tokens = <<>> THEN doc_scores
    ELSE LET token == Head(tokens)
         IN ScoreTokens(s,
                IF HasKey(s.inverted_index, token)
                THEN AddPostings(doc_scores, Get(s.inverted_index, token, <<>>),
                                 Get(s.idf_scores, token, 0))
                ELSE doc_scores,
                Tail(tokens))

\* (mutation: linear normalization, the score divided by the length)
Normalized_Linear(raw_score, length) ==
    FDiv(raw_score, IF length < 1 THEN Fix(1) ELSE Fix(length))
\* normalized_score = raw_score / norm_factor
Normalized(raw_score, length) ==
    LET sqrt == FSqrt(Fix(length))
        norm_factor == IF sqrt < Fix(1) THEN Fix(1) ELSE sqrt
    IN FDiv(raw_score, norm_factor)

\* self.inverted_index[token] on the unpickled defaultdict(dict): the index
\* after the subscript, a missing key being inserted with an empty posting dict
AfterSubscript(inverted_index, token) ==
    IF HasKey(inverted_index, token) THEN inverted_index
    ELSE Append(inverted_index, <<token, <<>>>>)
\* (mutation: the posting list is read without the membership test)
AfterToken_Unguarded(s, token) ==
    [s EXCEPT !.inverted_index = AfterSubscript(@, token)]
\* the object after one iteration of the loop over the query tokens:
\* if token in self.inverted_index: ... self.inverted_index[token]
AfterToken(s, token) ==
    IF HasKey(s.inverted_index, token)
    THEN [s EXCEPT !.inverted_index = AfterSubscript(@, token)]
    ELSE s
\* the object after text_search(tokens); doc_scores and final_scores are locals
RECURSIVE AfterTextSearch(_, _)
AfterTextSearch(s, tokens) ==
    IF tokens = <<>> THEN s
    ELSE AfterTextSearch(AfterToken(s, Head(tokens)), Tail(tokens))
\* the object after filter_by_emotion: every read of it is a membership test,
\* a .get() or a subscript of a plain dict under its membership test
AfterFilterByEmotion(s, candidates) == s

\* (mutation: a query that scores no document falls back to every document
\* of the length table with score 0)
text_search_Fallback(s, tokens) ==
    LET doc_scores == ScoreTokens(s, <<>>, tokens)
    IN IF doc_scores = <<>>
       THEN [i \in 1..Len(s.doc_lengths) |-> <<s.doc_lengths[i][1], 0>>]
       ELSE SortedByScore([i \in 1..Len(doc_scores) |->
                <<doc_scores[i][1],
                  Normalized(doc_scores[i][2], Get(s.doc_lengths, doc_scores[i][1], 1))>>])
text_search(s, tokens) ==
    IF tokens = <<>> THEN <<>>
    ELSE LET doc_scores == ScoreTokens(s, <<>>, tokens)
             final_scores ==
                 [i \in 1..Len(doc_scores) |->
                     <<doc_scores[i][1],
                       Normalized(doc_scores[i][2], Get(s.doc_lengths, doc_scores[i][1], 1))>>]
         IN SortedByScore(final_scores)

\* (mutation: an empty lexical list gives no candidate)
Candidates_NoFallback(s, text_results) == text_results
\* candidates of filter_by_emotion
Candidates(s, text_results) ==
    IF text_results # <<>> THEN text_results
    ELSE [i \in 1..Len(s.doc_ids) |-> <<s.doc_ids[i], 0>>]

\* (mutation: an emotion without statistics is scored against mean 0, std 1)
ZScore_DefaultStats(emotion_stats, emotion, emotion_density) ==
    LET stats == Get(emotion_stats, emotion, [mean |-> 0, std |-> 0, nan |-> TRUE])
    IN IF ~HasKey(emotion_stats, emotion) THEN emotion_density
       ELSE IF ~stats.nan /\ stats.std > 0
            THEN FDiv(emotion_density - stats.mean, stats.std)
       ELSE 0
\* (mutation: with a std of 0 the density itself is the score)
ZScore_DensityWhenFlat(emotion_stats, emotion, emotion_density) ==
    LET stats == Get(emotion_stats, emotion, [mean |-> 0, std |-> 0, nan |-> TRUE])
    IN IF HasKey(emotion_stats, emotion) /\ ~stats.nan
       THEN IF stats.std > 0 THEN FDiv(emotion_density - stats.mean, stats.std)
            ELSE emotion_density
       ELSE 0
\* stats = self.emotion_stats.get(emotion); the z-score of a density
ZScore(emotion_stats, emotion, emotion_density) ==
    LET stats == Get(emotion_stats, emotion, [mean |-> 0, std |-> 0, nan |-> TRUE])
    IN IF HasKey(emotion_stats, emotion) /\ ~stats.nan /\ stats.std > 0
       THEN FDiv(emotion_density - stats.mean, stats.std)
       ELSE 0

\* (mutation: no clamp)
EffectiveEmotionScore_Unclamped(z_score) == z_score
\* effective_emotion_score = max(0, z_score)
EffectiveEmotionScore(z_score) == IF z_score > 0 THEN z_score ELSE 0

CombinedScore(text_score, text_weight, z_score, emotion_weight) ==
    FMul(text_score, text_weight) + FMul(EffectiveEmotionScore(z_score), emotion_weight)

\* (mutation: a candidate without an emotion vector counts 0)
Considered_Always(s, doc_id) == TRUE
\* if doc_id in self.emotion_data
Considered(s, doc_id) == HasKey(s.emotion_data, doc_id)
\* (mutation: strictly above the minimum)
Kept_Strict(raw_emotion_count, min_score) == raw_emotion_count > min_score
\* if raw_emotion_count >= min_score
Kept(raw_emotion_count, min_score) == raw_emotion_count >= min_score

\* the loop over the candidates
RECURSIVE FilterFrom(_, _, _, _, _, _, _)
FilterFrom(s, filtered_results, candidates, emotion, min_score, text_weight, emotion_weight) ==
    IF candidates = <<>> THEN filtered_results
    ELSE LET doc_id == Head(candidates)[1]
             text_score == Head(candidates)[2]
             raw_emotion_count == Get(Get(s.emotion_data, doc_id, <<>>), emotion, 0)
             length == Get(s.doc_lengths, doc_id, 1)
             z_score == ZScore(s.emotion_stats, emotion, Density(raw_emotion_count, length))
             combined_score == CombinedScore(text_score, text_weight, z_score, emotion_weight)
         IN FilterFrom(s,
                IF Considered(s, doc_id) /\ Kept(raw_emotion_count, min_score)
                THEN Append(filtered_results, <<doc_id, combined_score, z_score>>)
                ELSE filtered_results,
                Tail(candidates), emotion, min_score, text_weight, emotion_weight)

\* emotion_density = raw_emotion_count / length divides by zero for some candidate
FilterDivByZero(s, candidates) ==
    \E i \in 1..Len(candidates) :
        /\ HasKey(s.emotion_data, candidates[i][1])
        /\ Get(s.doc_lengths, candidates[i][1], 1) = 0

\* raised: the ZeroDivisionError of raw_emotion_count / length leaves the method
filter_by_emotion(s, text_results, emotion, min_score, text_weight, emotion_weight) ==
    LET candidates == Candidates(s, text_results)
    IN IF FilterDivByZero(s, candidates) THEN [raised |-> TRUE, results |-> <<>>]
       ELSE [raised |-> FALSE,
             results |-> SortedByScore(FilterFrom(s, <<>>, candidates, emotion, min_score,
                                                  text_weight, emotion_weight))]


\* ------------------------------------------------------------------------
\* ir_system.py: the IRSystem the evaluator imports
\* ------------------------------------------------------------------------
TEXT_WEIGHT == 50
\* IRSystem._load_data of ir_system.py: the index and the emotion results;
\* the class has no statistics
legacy_load_data(s, index, emotion) ==
    [loaded |-> TRUE,
     inverted_index |-> IF index # <<>> THEN index[1].inverted_index ELSE s.inverted_index,
     idf_scores |-> IF index # <<>> THEN index[1].idf_scores ELSE s.idf_scores,
     doc_lengths |-> IF index # <<>> THEN index[1].doc_lengths ELSE s.doc_lengths,
     emotion_data |-> IF emotion # <<>> THEN emotion[1] ELSE s.emotion_data,
     doc_ids |-> IF emotion # <<>> THEN DictKeys(emotion[1]) ELSE s.doc_ids,
     emotion_stats |-> s.emotion_stats]
\* text_search of ir_system.py over the tokens of the query as typed (no
\* expansion, a repeated token scored again):
\* normalized_score = (raw_score / norm_factor) * TEXT_WEIGHT
legacy_text_search(s, tokens) ==
    IF tokens = <<>> THEN <<>>
    ELSE LET doc_scores == ScoreTokens(s, <<>>, tokens)
             final_scores ==
                 [i \in 1..Len(doc_scores) |->
                     <<doc_scores[i][1],
                       Normalized(doc_scores[i][2], Get(s.doc_lengths, doc_scores[i][1], 1))
                           * TEXT_WEIGHT>>]
         IN SortedByScore(final_scores)
\* emotion_density = (raw_emotion_count / length) * 100 if length > 0 else 0
legacy_density(raw_emotion_count, length) ==
    IF length > 0 THEN FDiv(Fix(raw_emotion_count), Fix(length)) * 100 ELSE 0
\* the loop over the candidates: combined_score = text_score + emotion_density
RECURSIVE legacy_FilterFrom(_, _, _, _, _)
legacy_FilterFrom(s, filtered_results, candidates, emotion, min_score) ==
    IF candidates = <<>> THEN filtered_results
    ELSE LET doc_id == Head(candidates)[1]
             text_score == Head(candidates)[2]
             raw_emotion_count == Get(Get(s.emotion_data, doc_id, <<>>), emotion, 0)
             emotion_density == legacy_density(raw_emotion_count, Get(s.doc_lengths, doc_id, 1))
             combined_score == text_score + emotion_density
         IN legacy_FilterFrom(s,
                IF HasKey(s.emotion_data, doc_id) /\ raw_emotion_count >= min_score
                THEN Append(filtered_results, <<doc_id, combined_score, emotion_density>>)
                ELSE filtered_results,
                Tail(candidates), emotion, min_score)
\* filter_by_emotion of ir_system.py
legacy_filter_by_emotion(s, text_results, emotion, min_score) ==
    SortedByScore(legacy_FilterFrom(s, <<>>, Candidates(s, text_results), emotion, min_score))

\* ------------------------------------------------------------------------
\* 6_ir_evaluator.py: IREvaluator
\* ------------------------------------------------------------------------
TOP_K == 10
\* final_results[:50]
TopScanned == 50
\* float('inf'): a rank no position has
Inf == 0 - 1
\* math.log2 of the naturals 1..11, times 1000
Log2Table == <<0, 1000, 1585, 2000, 2322, 2585, 2807, 3000, 3170, 3322, 3459>>
Log2(n) == (Log2Table[n] * Scale) \div 1000

\* title_map of the system: book id -> title, from the file names of the corpus
TitleMap == << <<"2701", "Moby Dick">>, <<"11", "Alice">> >>
\* str.lower() of the titles and title fragments in use
LowerTitle(title) ==
    CASE title = "Moby Dick" -> "moby dick"
      [] title = "Alice" -> "alice"
      [] title = "Moby" -> "moby"
      [] title = "Emma" -> "emma"
      [] OTHER -> title
\* fragment in title, for lower-case strings
IsSubstring(fragment, title) ==
    \/ fragment = title
    \/ <<fragment, title>> \in {<<"moby", "moby dick">>, <<"dick", "moby dick">>}

\* IREvaluator.__init__: self.title_to_id[title.lower()] = book_id
RECURSIVE ReverseTitles(_, _)
ReverseTitles(title_to_id, title_map) ==
    IF title_map = <<>> THEN title_to_id
    ELSE ReverseTitles(Put(title_to_id, LowerTitle(Head(title_map)[2]), Head(title_map)[1]),
                       Tail(title_map))

RECURSIVE MatchTitles(_, _, _)
MatchTitles(matches, title_to_id, fragment) ==
    IF title_to_id = <<>> THEN matches
    ELSE MatchTitles(IF IsSubstring(fragment, Head(title_to_id)[1])
                     THEN Append(matches, Head(title_to_id)[2]) ELSE matches,
                     Tail(title_to_id), fragment)
find_target_book_id(title_to_id, target_title_fragment) ==
    MatchTitles(<<>>, title_to_id, LowerTitle(target_title_fragment))

\* a segment id "2701_45" is the pair <<"2701", 45>>; doc_id.split('_')[0]
BookOf(doc_id) == doc_id[1]

\* (mutation: only the top K results are looked through)
Scanned_TopK(final_results) ==
    SubSeq(final_results, 1, IF Len(final_results) < TOP_K THEN Len(final_results) ELSE TOP_K)
\* final_results[:50]
Scanned(final_results) ==
    SubSeq(final_results, 1,
           IF Len(final_results) < TopScanned THEN Len(final_results) ELSE TopScanned)

\* the loop over enumerate(final_results[:50]): rank = i + 1 at the first
\* entry of a target book, float('inf') when the loop ends without a break
FindRank(final_results, target_ids) ==
    LET scanned == Scanned(final_results)
        hits == {i \in 1..Len(scanned) :
                    \E t \in 1..Len(target_ids) : BookOf(scanned[i][1]) = target_ids[t]}
    IN IF hits = {} THEN Inf ELSE CHOOSE i \in hits : \A j \in hits : i <= j

\* rank > k, also for float('inf')
Exceeds(rank, k) == rank = Inf \/ rank > k
calculate_ndcg(rank, k) ==
    IF Exceeds(rank, k) THEN 0 ELSE FDiv(Fix(1), Log2(rank + 1))
\* is_success = 1.0 if rank <= TOP_K else 0.0
IsSuccess(rank) == IF ~Exceeds(rank, TOP_K) THEN Fix(1) ELSE 0
\* rr = 1.0 / rank if rank != float('inf') else 0.0
ReciprocalRank(rank) == IF rank # Inf THEN FDiv(Fix(1), Fix(rank)) ELSE 0

\* a labeled case of test_cases.json, a dict of the three keys
LabeledCase(target_title) ==
    << <<"target_title", target_title>>, <<"query", "whale">>, <<"emotion", "fear">> >>
CaseKeys == <<"target_title", "query", "emotion">>
\* the dict without one of its keys
Without(case, key) ==
    LET kept == {i \in 1..Len(case) : case[i][1] # key}
    IN [i \in 1..Cardinality(kept) |->
           case[CHOOSE j \in kept : Cardinality({m \in kept : m <= j}) = i]]
\* the cases of test_cases.json: a target in the corpus, one not in it, and
\* cases that lack a key
TestCases ==
    {LabeledCase(t) : t \in {"Moby", "Emma"}}
        \cup {Without(LabeledCase("Moby"), CaseKeys[k]) : k \in 1..Len(CaseKeys)}
\* case['target_title'], case['query'] or case['emotion'] raises KeyError
RaisesKeyError(case) == \E k \in 1..Len(CaseKeys) : ~HasKey(case, CaseKeys[k])
\* (mutation: a skipped case counts in the total)
AfterContinue_Counted(metrics) == [metrics EXCEPT !.total = @ + 1]
\* metrics after an iteration that ends in 'continue'
AfterContinue(metrics) == metrics
\* the lines of the final report: the values given to the format strings
FinalReport(metrics) ==
    IF metrics.total > 0
    THEN <<[N |-> metrics.total,
            success_rate |-> FDiv(metrics.success, Fix(metrics.total)) * 100,
            ndcg |-> FDiv(metrics.ndcg, Fix(metrics.total)),
            mrr |-> FDiv(metrics.mrr, Fix(metrics.total))]>>
    ELSE <<>>
\* a list IRSystem.filter_by_emotion returns: n entries (doc_id, combined,
\* density), the entry at position p of the target book, the others not
RankedList(n, p) ==
    [i \in 1..n |-> << <<IF i = p THEN "2701" ELSE "11", i>>, 0, 0 >>]
\* the positions tried for the target: none, the top, the two sides of TOP_K
\* and of the scanned prefix, the end of the list
MarkPositions(n) ==
    {0} \cup ({1, 2, TOP_K, TOP_K + 1, TopScanned, TopScanned + 1, n} \cap (1..n))
\* the lengths tried: short lists, and lists around the scanned prefix
ListLengths == {0, 1, 2, TOP_K + 1} \cup ((TopScanned - 1)..MaxResults)
RankedLists ==
    UNION {{RankedList(n, p) : p \in MarkPositions(n)} : n \in ListLengths}
\* labeled cases over the vocabulary of the corpora, the query given by the
\* tokens re.findall makes of it
QueryCase(target_title, raw_tokens, emotion) ==
    << <<"target_title", target_title>>, <<"query", raw_tokens>>, <<"emotion", emotion>> >>
QueryCases ==
    {QueryCase("Moby", q, e) : q \in {<<"joy">>, <<"dread">>}, e \in {"joy", "fear"}}
\* segments of the two books of the title map
SegmentIds == {<<"2701", 1>>, <<"11", 1>>}
SegmentCorpora == CorporaUpTo(MaxRankDocs, SegmentIds, RankTokens)

\* ------------------------------------------------------------------------
\* State
\* ------------------------------------------------------------------------
VARIABLES
    corpus,        \* processed_corpus.pkl: the dict doc_id -> tokens
    index_file,    \* search_index.pkl: <<>> while absent, else <<data>>
    emotion_file,  \* emotion_results.pkl: <<>> while absent, else <<results>>
    stats_file,    \* emotion_stats.pkl: <<>> while absent, else <<stats>>
    system,        \* the IRSystem object
    search,        \* the last call of text_search and what it returned
    ranking,       \* the last call of filter_by_emotion and what it returned
    normalized,    \* a raw text and the tokens each tokenizer made of it
    evaluation,    \* the IREvaluator object and the locals of evaluate()
    processor      \* the corpus directory and the run of the corpus processor

vars ==
    <<corpus, index_file, emotion_file, stats_file, system, search, ranking,
      normalized, evaluation, processor>>

\* IRSystem.__init__ before _load_data
NewSystem ==
    [loaded |-> FALSE, inverted_index |-> <<>>, idf_scores |-> <<>>,
     doc_lengths |-> <<>>, emotion_data |-> <<>>, emotion_stats |-> <<>>,
     doc_ids |-> <<>>]
NoSearch == [called |-> FALSE, query |-> <<>>, tokens |-> <<>>, results |-> <<>>]
NoRanking ==
    [called |-> FALSE, text_results |-> <<>>, emotion |-> "", min_score |-> 0,
     text_weight |-> 0, emotion_weight |-> 0, raised |-> FALSE, results |-> <<>>]

\* no text given to the tokenizers yet; a result is <<>> until computed,
\* then <<tokens>>
NoText == [raw_text |-> <<>>, processed_tokens |-> <<>>, raw_tokens |-> <<>>]
\* no evaluator constructed; case holds the locals of the last iteration
NoCase ==
    [case |-> <<>>, target_title |-> "", skipped |-> FALSE, target_ids |-> <<>>,
     final_results |-> <<>>, rank |-> Inf, is_success |-> 0, rr |-> 0, ndcg |-> 0]
\* seen: the iterations begun; log: the outcome printed for each case;
\* raised: an exception left evaluate(); reported: the loop ended and the
\* final report was printed, report holding its lines (<<>> for 'No valid
\* test cases run.')
NoEvaluation ==
    [constructed |-> FALSE, title_to_id |-> <<>>, seen |-> 0,
     metrics |-> [mrr |-> 0, ndcg |-> 0, success |-> 0, total |-> 0],
     case |-> NoCase, log |-> <<>>, raised |-> FALSE, reported |-> FALSE, report |-> <<>>]
\* the corpus processor not run; file_paths are the files glob finds
NoProcessor == [file_paths |-> <<>>, done |-> FALSE, output |-> <<>>]
\* the inputs of the query interface
\* raw_tokens of a query: empty, known words, a word known only by its
\* synonym, an unknown word, two words of which one is typed twice
Queries ==
    {<<>>, <<"joy">>, <<"dread">>, <<"zzz">>, <<"dread", "joy", "joy">>}
EmotionNames == {"joy", "fear", "awe"}
MinScores == {0, 1}
\* (text_weight, emotion_weight): the defaults, the hybrid search and the
\* discovery mode of the main loop, and a negative emotion weight
Weights ==
    {<<Fix(1), Fix(1)>>, <<Fix(1) \div 2, Fix(1)>>, <<0, Fix(1)>>, <<Fix(1), 0 - Fix(1)>>}

InitWith(corpora) ==
    /\ corpus \in corpora
    /\ index_file = <<>>
    /\ emotion_file = <<>>
    /\ stats_file = <<>>
    /\ system = NewSystem
    /\ search = NoSearch
    /\ ranking = NoRanking
    /\ normalized = NoText
    /\ evaluation = NoEvaluation
    /\ processor = NoProcessor

\* a corpus taken through the whole pipeline to the queries
Init == InitWith(RankCorpora)
\* a corpus of sparse segments taken through the whole pipeline
InitSparse == InitWith(SparseCorpora)
\* a corpus of MaxDocs one-term documents taken through the whole pipeline
InitWide == InitWith(WideCorpora)
\* a corpus for the build stages
InitBuild == InitWith(Corpora)
\* a corpus of one segment for the emotion scanner
InitScan == InitWith({<<<<"A", tokens>>>> : tokens \in ScanSegments})
\* a raw text for the two tokenizers
InitText ==
    /\ corpus = <<>>
    /\ index_file = <<>>
    /\ emotion_file = <<>>
    /\ stats_file = <<>>
    /\ system = NewSystem
    /\ search = NoSearch
    /\ ranking = NoRanking
    /\ normalized \in {[NoText EXCEPT !.raw_text = text] : text \in Texts}
    /\ evaluation = NoEvaluation
    /\ processor = NoProcessor
\* the evaluation script started
InitEval == InitWith({<<>>})
\* a corpus of segments for the evaluator's system
InitHarness == InitWith(SegmentCorpora)
\* a corpus directory, no corpus processed yet
InitCorpus ==
    /\ corpus = <<>>
    /\ index_file = <<>>
    /\ emotion_file = <<>>
    /\ stats_file = <<>>
    /\ system = NewSystem
    /\ search = NoSearch
    /\ ranking = NoRanking
    /\ normalized = NoText
    /\ evaluation = NoEvaluation
    /\ processor \in {[NoProcessor EXCEPT !.file_paths = f] : f \in Directories}

\* 2_corpus_processor.py __main__ with FORCE_REBUILD: build the corpus from
\* the files and save it, if corpus
ProcessCorpus ==
    /\ ~processor.done
    /\ processor.file_paths # <<>>
    /\ LET run == build_corpus_from_files(processor.file_paths)
       IN /\ processor' = [processor EXCEPT !.done = TRUE, !.output = run.output]
          /\ corpus' = IF run.processed_corpus # <<>> THEN run.processed_corpus ELSE corpus
    /\ UNCHANGED <<index_file, emotion_file, stats_file, system, search, ranking,
                   normalized, evaluation>>

\* 3_indexer.py __main__: build the index and save it
\* if inv_index and idfs and lengths
BuildIndex ==
    /\ ~system.loaded
    /\ index_file = <<>>
    /\ LET built == build_index(corpus)
       IN /\ built.inverted_index # <<>>
          /\ built.idf_scores # <<>>
          /\ built.doc_lengths # <<>>
          /\ index_file' = <<built>>
    /\ UNCHANGED <<corpus, emotion_file, stats_file, system, search, ranking,
                   normalized, evaluation, processor>>

\* 4_chunk_level_emotion_analyzer.py __main__
AnalyzeChunks ==
    /\ ~system.loaded
    /\ emotion_file = <<>>
    /\ emotion_file' = <<analyze_chunks(corpus)>>
    /\ UNCHANGED <<corpus, index_file, stats_file, system, search, ranking, normalized, evaluation,
                   processor>>

\* 4.5_z_score_generator.py __main__: returns early when a file is missing
GenerateZScores ==
    /\ ~system.loaded
    /\ stats_file = <<>>
    /\ emotion_file # <<>>
    /\ index_file # <<>>
    /\ LET r == generate_z_scores(emotion_file[1], index_file[1].doc_lengths)
       IN /\ ~r.raised
          /\ stats_file' = <<r.stats>>
    /\ UNCHANGED <<corpus, index_file, emotion_file, system, search, ranking,
                   normalized, evaluation, processor>>

\* (mutation: without a statistics file every emotion gets mean 0 and std 1)
load_data_DefaultStats(s, index, emotion, stats) ==
    [loaded |-> TRUE,
     inverted_index |-> IF index # <<>> THEN index[1].inverted_index ELSE s.inverted_index,
     idf_scores |-> IF index # <<>> THEN index[1].idf_scores ELSE s.idf_scores,
     doc_lengths |-> IF index # <<>> THEN index[1].doc_lengths ELSE s.doc_lengths,
     emotion_data |-> IF emotion # <<>> THEN emotion[1] ELSE s.emotion_data,
     doc_ids |-> IF emotion # <<>> THEN DictKeys(emotion[1]) ELSE s.doc_ids,
     emotion_stats |->
        IF stats # <<>> THEN stats[1]
        ELSE [i \in 1..Len(emotions) |->
                 <<emotions[i], [mean |-> 0, std |-> Fix(1), nan |-> FALSE]>>]]
\* IRSystem._load_data
load_data(s, index, emotion, stats) ==
    [loaded |-> TRUE,
     inverted_index |-> IF index # <<>> THEN index[1].inverted_index ELSE s.inverted_index,
     idf_scores |-> IF index # <<>> THEN index[1].idf_scores ELSE s.idf_scores,
     doc_lengths |-> IF index # <<>> THEN index[1].doc_lengths ELSE s.doc_lengths,
     emotion_data |-> IF emotion # <<>> THEN emotion[1] ELSE s.emotion_data,
     doc_ids |-> IF emotion # <<>> THEN DictKeys(emotion[1]) ELSE s.doc_ids,
     emotion_stats |-> IF stats # <<>> THEN stats[1] ELSE s.emotion_stats]

\* system = IRSystem()
LoadData ==
    /\ ~system.loaded
    /\ system' = load_data(system, index_file, emotion_file, stats_file)
    /\ UNCHANGED <<corpus, index_file, emotion_file, stats_file, search, ranking,
                   normalized, evaluation, processor>>

\* system.text_search(query)
TextSearch ==
    /\ system.loaded
    /\ ~search.called
    /\ ~ranking.called
    /\ \E query \in Queries :
         \E tokens \in process_query(query) :
            /\ search' = [called |-> TRUE, query |-> query, tokens |-> tokens,
                          results |-> text_search(system, tokens)]
            /\ system' = AfterTextSearch(system, tokens)
    /\ UNCHANGED <<corpus, index_file, emotion_file, stats_file, ranking, normalized, evaluation,
                   processor>>

\* system.filter_by_emotion(text_results, emotion, min_score, text_weight, emotion_weight)
FilterByEmotion ==
    /\ system.loaded
    /\ ~ranking.called
    /\ \E emotion \in EmotionNames, min_score \in MinScores, w \in Weights :
         LET r == filter_by_emotion(system, search.results, emotion, min_score, w[1], w[2])
         IN ranking' = [called |-> TRUE, text_results |-> search.results,
                        emotion |-> emotion, min_score |-> min_score,
                        text_weight |-> w[1], emotion_weight |-> w[2],
                        raised |-> r.raised, results |-> r.results]
    /\ system' = AfterFilterByEmotion(system, Candidates(system, search.results))
    /\ UNCHANGED <<corpus, index_file, emotion_file, stats_file, search, normalized, evaluation,
                   processor>>

\* 2_corpus_processor.py: processed_tokens = process_text_pipeline(raw_text)
ProcessText ==
    /\ normalized.processed_tokens = <<>>
    /\ normalized' =
          [normalized EXCEPT !.processed_tokens = <<process_text_pipeline(normalized.raw_text)>>]
    /\ UNCHANGED <<corpus, index_file, emotion_file, stats_file, system, search, ranking,
                   evaluation, processor>>

\* process_query: the tokenization of the same text typed as a query
TokenizeQuery ==
    /\ normalized.raw_tokens = <<>>
    /\ normalized' = [normalized EXCEPT !.raw_tokens = <<raw_tokens_of(normalized.raw_text)>>]
    /\ UNCHANGED <<corpus, index_file, emotion_file, stats_file, system, search, ranking,
                   evaluation, processor>>

\* evaluator = IREvaluator(): self.system = IRSystem() of ir_system.py, then
\* the reverse title map
NewEvaluator ==
    /\ ~evaluation.constructed
    /\ ~system.loaded
    /\ system' = legacy_load_data(system, index_file, emotion_file)
    /\ evaluation' = [evaluation EXCEPT !.constructed = TRUE,
                                        !.title_to_id = ReverseTitles(<<>>, TitleMap)]
    /\ UNCHANGED <<corpus, index_file, emotion_file, stats_file, search, ranking,
                   normalized, processor>>

\* the loop of evaluate() has iterations left
InLoop ==
    /\ evaluation.constructed
    /\ ~evaluation.raised
    /\ ~evaluation.reported
    /\ evaluation.seen < MaxCases

\* one iteration of the loop of evaluate() that a KeyError leaves: the case
\* lacks a key; nothing catches the exception
RaiseKeyError ==
    /\ InLoop
    /\ \E case \in TestCases :
          /\ RaisesKeyError(case)
          /\ evaluation' =
                [evaluation EXCEPT !.seen = @ + 1,
                                   !.raised = TRUE,
                                   !.case = [NoCase EXCEPT !.case = case]]
    /\ UNCHANGED <<corpus, index_file, emotion_file, stats_file, system, search, ranking,
                   normalized, processor>>

\* one iteration of the loop of evaluate() that ends in 'continue': the
\* target book is not found in the corpus
SkipCase ==
    /\ InLoop
    /\ \E case \in TestCases :
         LET target_title == Get(case, "target_title", "")
             target_ids == find_target_book_id(evaluation.title_to_id, target_title)
         IN /\ ~RaisesKeyError(case)
            /\ target_ids = <<>>
            /\ evaluation' =
                  [evaluation EXCEPT
                      !.seen = @ + 1,
                      !.metrics = AfterContinue(@),
                      !.log = Append(@, [kind |-> "SKIPPED", rank |-> Inf]),
                      !.case = [NoCase EXCEPT !.case = case,
                                              !.target_title = target_title,
                                              !.skipped = TRUE]]
    /\ UNCHANGED <<corpus, index_file, emotion_file, stats_file, system, search, ranking,
                   normalized, processor>>

\* the line printed for a scored case
Outcome(rank, is_success) ==
    [kind |-> IF is_success # 0 THEN "SUCCESS" ELSE IF rank # Inf THEN "FOUND" ELSE "FAILURE",
     rank |-> rank]

\* one iteration of the loop of evaluate() that scores the case;
\* final_results is what the system's text_search and filter_by_emotion return
EvaluateCase ==
    /\ InLoop
    /\ \E case \in TestCases, final_results \in RankedLists :
         LET target_title == Get(case, "target_title", "")
             target_ids == find_target_book_id(evaluation.title_to_id, target_title)
             rank == FindRank(final_results, target_ids)
             is_success == IsSuccess(rank)
             rr == ReciprocalRank(rank)
             ndcg == calculate_ndcg(rank, TOP_K)
         IN /\ ~RaisesKeyError(case)
            /\ target_ids # <<>>
            /\ evaluation' =
                  [evaluation EXCEPT
                      !.seen = @ + 1,
                      !.metrics = [mrr |-> @.mrr + rr, ndcg |-> @.ndcg + ndcg,
                                   success |-> @.success + is_success,
                                   total |-> @.total + 1],
                      !.log = Append(@, Outcome(rank, is_success)),
                      !.case = [case |-> case, target_title |-> target_title,
                                skipped |-> FALSE,
                                target_ids |-> target_ids, final_results |-> final_results,
                                rank |-> rank, is_success |-> is_success,
                                rr |-> rr, ndcg |-> ndcg]]
    /\ UNCHANGED <<corpus, index_file, emotion_file, stats_file, system, search, ranking,
                   normalized, processor>>

\* one iteration of the loop of evaluate() that scores the case, with the
\* list the evaluator's system returns for the query and the emotion:
\* text_results = self.system.text_search(query)
\* final_results = self.system.filter_by_emotion(text_results, emotion)
EvaluateOnSystem ==
    /\ InLoop
    /\ \E case \in QueryCases :
         LET target_title == Get(case, "target_title", "")
             target_ids == find_target_book_id(evaluation.title_to_id, target_title)
             text_results == legacy_text_search(system, Get(case, "query", <<>>))
             final_results ==
                 legacy_filter_by_emotion(system, text_results, Get(case, "emotion", ""), 0)
             rank == FindRank(final_results, target_ids)
             is_success == IsSuccess(rank)
             rr == ReciprocalRank(rank)
             ndcg == calculate_ndcg(rank, TOP_K)
         IN /\ target_ids # <<>>
            /\ evaluation' =
                  [evaluation EXCEPT
                      !.seen = @ + 1,
                      !.metrics = [mrr |-> @.mrr + rr, ndcg |-> @.ndcg + ndcg,
                                   success |-> @.success + is_success,
                                   total |-> @.total + 1],
                      !.log = Append(@, Outcome(rank, is_success)),
                      !.case = [case |-> case, target_title |-> target_title,
                                skipped |-> FALSE,
                                target_ids |-> target_ids, final_results |-> final_results,
                                rank |-> rank, is_success |-> is_success,
                                rr |-> rr, ndcg |-> ndcg]]
    /\ UNCHANGED <<corpus, index_file, emotion_file, stats_file, system, search, ranking,
                   normalized, processor>>

\* the loop ends (the list had evaluation.seen cases) and the final report
\* is printed
Report ==
    /\ evaluation.constructed
    /\ ~evaluation.raised
    /\ ~evaluation.reported
    /\ evaluation' = [evaluation EXCEPT !.reported = TRUE,
                                        !.report = FinalReport(evaluation.metrics)]
    /\ UNCHANGED <<corpus, index_file, emotion_file, stats_file, system, search, ranking,
                   normalized, processor>>

Next ==
    \/ BuildIndex
    \/ AnalyzeChunks
    \/ GenerateZScores
    \/ LoadData
    \/ TextSearch
    \/ FilterByEmotion

Spec == Init /\ [][Next]_vars
\* the same pipeline over the sparse corpora
SpecSparse == InitSparse /\ [][Next]_vars
\* the same pipeline over the corpora of MaxDocs documents
SpecWide == InitWide /\ [][Next]_vars

\* the build stages alone, over the larger corpora
NextBuild ==
    \/ BuildIndex
    \/ AnalyzeChunks
    \/ GenerateZScores
SpecBuild == InitBuild /\ [][NextBuild]_vars

\* the emotion scanner alone, over every segment of up to MaxScanLen tokens
NextScan == AnalyzeChunks
SpecScan == InitScan /\ [][NextScan]_vars

\* the two tokenizers, over every text of up to MaxTextLen characters
NextText ==
    \/ ProcessText
    \/ TokenizeQuery
SpecText == InitText /\ [][NextText]_vars

\* the evaluation harness, over the ranked lists
NextEval ==
    \/ NewEvaluator
    \/ RaiseKeyError
    \/ SkipCase
    \/ EvaluateCase
    \/ Report
SpecEval == InitEval /\ [][NextEval]_vars

\* the build stages and the evaluation harness over the system they load
NextHarness ==
    \/ BuildIndex
    \/ AnalyzeChunks
    \/ GenerateZScores
    \/ NewEvaluator
    \/ EvaluateOnSystem
SpecHarness == InitHarness /\ [][NextHarness]_vars

\* the corpus processor and the index build over its corpus
NextCorpus ==
    \/ ProcessCorpus
    \/ BuildIndex
SpecCorpus == InitCorpus /\ [][NextCorpus]_vars


\* ------------------------------------------------------------------------
\* Properties of the index builder (SpecBuild)
\* ------------------------------------------------------------------------
Range(f) == {f[i] : i \in DOMAIN f}
\* every word of a document, and one word of none
Words == UNION {Range(toks) : toks \in TokenPool} \cup {"zzz"}
IndexBuilt == index_file # <<>>
\* the posting list of a term, empty for a term that is not indexed
Postings(inverted_index, t) == Get(inverted_index, t, <<>>)
\* the number of documents of the corpus that contain t
DocFreq(t) == Cardinality({i \in 1..Len(corpus) : Occurrences(t, corpus[i][2]) > 0})
ScenarioA ==
    << <<"A", <<"fear", "fear", "joy">>>>, <<"B", <<"joy", "joy">>>>, <<"C", <<"trust">>>> >>

\* C1: after build_index, inverted_index[t] has an entry for document d iff
\* t occurs in d's tokens, and the entry is the number of occurrences of t in
\* d; no posting names a document outside the corpus; Scenario A gives
\* inverted_index[fear] = {A: 2} and doc_lengths = {A: 3, B: 2, C: 1}.
C1_PostingsAreOccurrenceCounts ==
    IndexBuilt =>
        LET idx == index_file[1].inverted_index
        IN /\ IsDict(idx)
           /\ \A k \in 1..Len(idx) :
                /\ IsDict(idx[k][2])
                /\ KeySet(idx[k][2]) \subseteq KeySet(corpus)
                /\ \A j \in 1..Len(idx[k][2]) : idx[k][2][j][2] >= 1
           /\ \A i \in 1..Len(corpus), t \in Words :
                LET n == Occurrences(t, corpus[i][2])
                IN /\ HasKey(Postings(idx, t), corpus[i][1]) <=> n > 0
                   /\ Get(Postings(idx, t), corpus[i][1], 0) = n
           /\ corpus = ScenarioA =>
                /\ Postings(idx, "fear") = << <<"A", 2>> >>
                /\ index_file[1].doc_lengths = << <<"A", 3>>, <<"B", 2>>, <<"C", 1>> >>
C1_Witness ==
    /\ IndexBuilt
    /\ corpus = ScenarioA
    /\ Postings(index_file[1].inverted_index, "joy") = << <<"A", 1>>, <<"B", 2>> >>

\* C2: after build_index, for every document d of the corpus the sum over
\* all indexed terms t of inverted_index[t][d] equals doc_lengths[d].
C2_PostingsSumToLength ==
    IndexBuilt =>
        LET idx == index_file[1].inverted_index
        IN \A i \in 1..Len(corpus) :
              /\ HasKey(index_file[1].doc_lengths, corpus[i][1])
              /\ SumSeq([k \in 1..Len(idx) |-> Get(idx[k][2], corpus[i][1], 0)])
                    = Get(index_file[1].doc_lengths, corpus[i][1], 0)
C2_Witness ==
    /\ IndexBuilt
    /\ \E i \in 1..Len(corpus) :
          /\ corpus[i][2] = <<"fear", "fear", "joy">>
          /\ Get(index_file[1].doc_lengths, corpus[i][1], 0) = 3
          /\ Get(Postings(index_file[1].inverted_index, "fear"), corpus[i][1], 0) = 2

\* C3: after build_index over N documents the idf table has exactly the
\* indexed terms, idf_scores[t] = ln(N / (df(t) + 1)) with df(t) the number
\* of documents containing t; the argument of the logarithm is positive for
\* every df in 1..N, and the value is strictly decreasing in df.
C3_IdfIsSmoothedLogRatio ==
    IndexBuilt =>
        LET idf == index_file[1].idf_scores
            N == Len(corpus)
        IN /\ IsDict(idf)
           /\ KeySet(idf) = {t \in Words : DocFreq(t) > 0}
           /\ DictKeys(idf) = DictKeys(index_file[1].inverted_index)
           /\ \A t \in KeySet(idf) :
                /\ DocFreq(t) \in 1..N
                /\ Get(idf, t, 0) = Ln(N, DocFreq(t) + 1)
           /\ \A t, u \in KeySet(idf) :
                DocFreq(t) < DocFreq(u) => Get(idf, t, 0) > Get(idf, u, 0)
           /\ \A df \in 1..N : N > 0 /\ df + 1 > 0
           /\ \A df, dg \in 1..N : df < dg => Idf(N, df) > Idf(N, dg)
C3_Witness ==
    /\ IndexBuilt
    /\ corpus = ScenarioA
    /\ Get(index_file[1].idf_scores, "fear", 0) = Ln(3, 2)
    /\ Get(index_file[1].idf_scores, "joy", 0) = Ln(3, 3)
    /\ Get(index_file[1].idf_scores, "fear", 0) > Get(index_file[1].idf_scores, "joy", 0)


\* ------------------------------------------------------------------------
\* Properties of the emotion scanner (SpecScan)
\* ------------------------------------------------------------------------
TagNames == {"joy", "fear", "trust"}
\* a negation marker stands at one of the LOOKBACK_WINDOW positions before i
MarkerInWindow(tokens, i) ==
    \E j \in 1..Len(tokens) :
        j < i /\ j >= i - LOOKBACK_WINDOW /\ tokens[j] \in NEGATION_TERMS
\* the positions whose token is tagged with emotion e and has no marker in its window
Contributing(tokens, e) ==
    {i \in 1..Len(tokens) : e \in Range(Tags(tokens[i])) /\ ~MarkerInWindow(tokens, i)}
\* the vector the analyzer stored for a segment, empty when it stored none
StoredVector(results, doc_id) == Get(results, doc_id, <<>>)

\* C4: the scanner counts, for each emotion, exactly the tokens tagged with
\* it that have no negation marker among the LOOKBACK_WINDOW tokens before
\* them, each such token adding 1 to each of its tags; nothing else decides
\* (not an earlier negated token, not a marker further back).
\* [is, not, joyful] gives no count, [is, joyful] gives joy 1 and trust 1.
C4_NegationIsLocalToWindow ==
    emotion_file # <<>> =>
        \A i \in 1..Len(corpus) :
            LET tokens == corpus[i][2]
                vector == StoredVector(emotion_file[1], corpus[i][1])
            IN /\ \A e \in TagNames :
                    Get(vector, e, 0) = Cardinality(Contributing(tokens, e))
               /\ KeySet(vector) \subseteq TagNames
               /\ tokens = <<"is", "not", "joyful">> => vector = <<>>
               /\ tokens = <<"is", "joyful">> => vector = << <<"joy", 1>>, <<"trust", 1>> >>
\* "fear" is negated, "joyful" has the marker four tokens back and counts
C4_Witness ==
    /\ corpus = << <<"A", <<"not", "fear", "is", "is", "joyful">>>> >>
    /\ emotion_file = << << <<"A", << <<"joy", 1>>, <<"trust", 1>> >> >> >> >>


\* ------------------------------------------------------------------------
\* Properties of the query engine and the hybrid ranker (Spec)
\* ------------------------------------------------------------------------
\* every artifact was built before the system was loaded
FullyLoaded ==
    system.loaded /\ index_file # <<>> /\ emotion_file # <<>> /\ stats_file # <<>>
\* filter_by_emotion returned a list
Ranked == ranking.called /\ ~ranking.raised
\* the position of a document in a list of tuples that start with the id
PosIn(list, doc_id) == CHOOSE k \in 1..Len(list) : list[k][1] = doc_id
\* the position of an element in a list
IndexIn(list, x) == CHOOSE k \in 1..Len(list) : list[k] = x
IdsOf(list) == {list[k][1] : k \in 1..Len(list)}
OncePerId(list) == \A i, j \in 1..Len(list) : list[i][1] = list[j][1] => i = j
\* the candidates of the last call of filter_by_emotion
RankingCandidates == Candidates(system, ranking.text_results)
RawCount(doc_id) == Get(Get(system.emotion_data, doc_id, <<>>), ranking.emotion, 0)
HasVector(doc_id) == HasKey(system.emotion_data, doc_id)
\* the statistics entry of the target emotion exists and has a positive std
HasSpread ==
    /\ HasKey(system.emotion_stats, ranking.emotion)
    /\ ~Get(system.emotion_stats, ranking.emotion, [nan |-> TRUE]).nan
    /\ Get(system.emotion_stats, ranking.emotion, [std |-> 0]).std > 0
\* the signed z-score of a document for the target emotion
SignedZ(doc_id) ==
    IF HasSpread
    THEN LET stats == Get(system.emotion_stats, ranking.emotion, [mean |-> 0, std |-> 1])
             density == (RawCount(doc_id) * Scale) \div Get(system.doc_lengths, doc_id, 1)
         IN FDiv(density - stats.mean, stats.std)
    ELSE 0
Clamp(z) == IF z < 0 THEN 0 ELSE z

\* C5: every entry of the ranker's list is (doc id, combined, z) with z the
\* signed z-score and combined = text_score * text_weight + max(0, z) *
\* emotion_weight; with emotion_weight >= 0 an entry with z < 0 has combined
\* = text_score * text_weight and keeps its negative z.
C5_CombinedScoreClampsZ ==
    Ranked =>
        \A k \in 1..Len(ranking.results) :
            LET doc_id == ranking.results[k][1]
                combined == ranking.results[k][2]
                z == ranking.results[k][3]
                text_score == Get(RankingCandidates, doc_id, 0)
            IN /\ z = SignedZ(doc_id)
               /\ combined = FMul(text_score, ranking.text_weight)
                               + FMul(Clamp(z), ranking.emotion_weight)
               /\ (z < 0 /\ ranking.emotion_weight >= 0) =>
                      combined = FMul(text_score, ranking.text_weight)
C5_Witness ==
    /\ Ranked
    /\ \E k \in 1..Len(ranking.results) :
          /\ ranking.results[k][3] < 0
          /\ ranking.emotion_weight > 0
          /\ ranking.results[k][2] # 0
          /\ ranking.results[k][2] =
                FMul(Get(RankingCandidates, ranking.results[k][1], 0), ranking.text_weight)

FirstToken(doc_id) ==
    CHOOSE k \in 1..Len(search.tokens) :
        /\ HasKey(Postings(system.inverted_index, search.tokens[k]), doc_id)
        /\ \A m \in 1..(k - 1) :
              ~HasKey(Postings(system.inverted_index, search.tokens[m]), doc_id)
ScoredBefore(d, e) ==
    \/ FirstToken(d) < FirstToken(e)
    \/ /\ FirstToken(d) = FirstToken(e)
       /\ PosIn(Postings(system.inverted_index, search.tokens[FirstToken(d)]), d)
            < PosIn(Postings(system.inverted_index, search.tokens[FirstToken(d)]), e)

DiscoveryMode ==
    /\ Ranked
    /\ ranking.text_results = <<>>
    /\ ranking.text_weight = 0
    /\ ranking.emotion_weight = Fix(1)
    /\ ranking.min_score = 0

C10_ZeroZWithoutSpread ==
    (ranking.called /\ ~HasSpread) =>
        /\ ~ranking.raised
        /\ \A k \in 1..Len(ranking.results) : ranking.results[k][3] = 0
C10_Witness ==
    /\ Ranked
    /\ FullyLoaded
    /\ HasKey(system.emotion_stats, ranking.emotion)
    /\ Get(system.emotion_stats, ranking.emotion, [std |-> 1]).std = 0
    /\ \E k \in 1..Len(ranking.results) :
          /\ RawCount(ranking.results[k][1]) > 0
          /\ ranking.results[k][3] = 0


\* ------------------------------------------------------------------------
\* Properties of the corpus statistics (SpecBuild)
\* ------------------------------------------------------------------------
StatsBuilt == stats_file # <<>>
\* the raw count of an emotion the analyzer stored for a segment, 0 when the
\* segment has no vector or the vector no such emotion
StoredCount(doc_id, emo) == Get(StoredVector(emotion_file[1], doc_id), emo, 0)
\* count / max(length, 1)
FlooredDensity(count, length) ==
    (count * Scale * Scale) \div ((IF length < 1 THEN 1 ELSE length) * Scale)
\* one density per segment of the length table
AllSegmentDensities(emo) ==
    LET lengths == index_file[1].doc_lengths
    IN [i \in 1..Len(lengths) |->
           FlooredDensity(StoredCount(lengths[i][1], emo), lengths[i][2])]
PopulationMean(values) ==
    Sign(SumSeq(values)) * ((Abs(SumSeq(values)) * Scale) \div (Len(values) * Scale))
PopulationStd(values) ==
    LET m == PopulationMean(values)
    IN ISqrt(SumSeq([i \in 1..Len(values) |-> (values[i] - m) * (values[i] - m)])
                \div Len(values))

\* C11 as claimed: for each emotion the statistics are the population mean
\* and the population standard deviation of count / max(length, 1) taken
\* over every segment of the length table, a segment without a count for
\* the emotion contributing density 0.
C11_Original_StatsOverEverySegment ==
    (StatsBuilt /\ emotion_file[1] # <<>>) =>
        \A k \in 1..Len(emotions) :
            LET stats == Get(stats_file[1], emotions[k], [mean |-> 0, std |-> 0, nan |-> TRUE])
                values == AllSegmentDensities(emotions[k])
            IN /\ HasKey(stats_file[1], emotions[k])
               /\ ~stats.nan
               /\ stats.mean = PopulationMean(values)
               /\ stats.std = PopulationStd(values)


\* ------------------------------------------------------------------------
\* Further properties of the query engine (Spec)
\* ------------------------------------------------------------------------
\* no token of the last query is a key of the loaded index
NoTokenIndexed ==
    \A k \in 1..Len(search.tokens) : ~HasKey(system.inverted_index, search.tokens[k])

\* C13: a query all of whose expanded tokens are absent from the inverted
\* index makes text_search return the empty list, and so does a query that
\* yields no tokens at all.
C13_UnknownTermsGiveEmptyList ==
    search.called =>
        /\ NoTokenIndexed => search.results = <<>>
        /\ search.query = <<>> => (search.tokens = <<>> /\ search.results = <<>>)
C13_Witness ==
    /\ search.called
    /\ FullyLoaded
    /\ search.query = <<"zzz">>
    /\ search.tokens = <<"zzz">>
    /\ system.inverted_index # <<>>
    /\ search.results = <<>>


\* ------------------------------------------------------------------------
\* Further properties of the index builder (SpecBuild)
\* ------------------------------------------------------------------------
\* C14 as claimed: every value of the document length table is an integer
\* >= 1; a document whose token sequence is empty is recorded with length 1.
C14_Original_LengthsAtLeastOne ==
    IndexBuilt =>
        LET lengths == index_file[1].doc_lengths
        IN /\ KeySet(lengths) = KeySet(corpus)
           /\ \A i \in 1..Len(lengths) : lengths[i][2] \in Nat /\ lengths[i][2] >= 1
           /\ \A i \in 1..Len(corpus) :
                 corpus[i][2] = <<>> => Get(lengths, corpus[i][1], 1) = 1


\* C16: text_search and filter_by_emotion are read-only: after the calls the
\* inverted index, the idf table, the length table, the emotion data, the
\* emotion statistics and doc_ids are what _load_data set them to, also for
\* unknown terms, unknown emotions and candidates without a vector (no
\* lookup inserts a key).
C16_QueriesLeaveLoadedDataUnchanged ==
    system.loaded =>
        LET loaded == load_data(NewSystem, index_file, emotion_file, stats_file)
        IN /\ system.inverted_index = loaded.inverted_index
           /\ system.idf_scores = loaded.idf_scores
           /\ system.doc_lengths = loaded.doc_lengths
           /\ system.emotion_data = loaded.emotion_data
           /\ system.emotion_stats = loaded.emotion_stats
           /\ system.doc_ids = loaded.doc_ids
\* a query with terms that are not indexed, then an unknown emotion over
\* candidates one of which has no emotion vector
C16_Witness ==
    /\ FullyLoaded
    /\ search.called
    /\ ranking.called
    /\ system.inverted_index # <<>>
    /\ \E k \in 1..Len(search.tokens) : ~HasKey(system.inverted_index, search.tokens[k])
    /\ ranking.emotion = "awe"
    /\ \E d \in IdsOf(ranking.text_results) : ~HasVector(d)


\* C17 as claimed: with the index or the emotion results missing at load,
\* every later call of text_search or filter_by_emotion returns the empty
\* list without raising; with only the statistics missing every candidate
\* has z = 0.
C17_Original_EmptyWhenEitherMissing ==
    system.loaded =>
        /\ ranking.called => ~ranking.raised
        /\ (index_file = <<>> \/ emotion_file = <<>>) =>
              /\ search.called => search.results = <<>>
              /\ ranking.called => ranking.results = <<>>
        /\ (ranking.called /\ stats_file = <<>>) =>
              \A k \in 1..Len(ranking.results) : ranking.results[k][3] = 0
\* C17: with an artifact missing at load the system is still constructed
\* and the later calls return without raising: text_search returns the
\* empty list when the index is missing, filter_by_emotion returns the empty
\* list when the emotion results are missing, and every entry it returns
\* has z = 0 when the statistics are missing.
C17_MissingArtifactsDegrade ==
    system.loaded =>
        /\ ranking.called => ~ranking.raised
        /\ (search.called /\ index_file = <<>>) => search.results = <<>>
        /\ (ranking.called /\ emotion_file = <<>>) => ranking.results = <<>>
        /\ (ranking.called /\ stats_file = <<>>) =>
              \A k \in 1..Len(ranking.results) : ranking.results[k][3] = 0
\* only the statistics are missing, and a document with a count is ranked
C17_Witness ==
    /\ system.loaded
    /\ index_file # <<>>
    /\ emotion_file # <<>>
    /\ stats_file = <<>>
    /\ Ranked
    /\ ranking.text_results # <<>>
    /\ \E k \in 1..Len(ranking.results) :
          /\ RawCount(ranking.results[k][1]) > 0
          /\ ranking.results[k][3] = 0
          /\ ranking.results[k][2] # 0


\* the documents that have a posting for some token of the last query
Matched ==
    {d \in KeySet(system.doc_lengths) \cup KeySet(corpus) :
        \E k \in 1..Len(search.tokens) :
            HasKey(Postings(system.inverted_index, search.tokens[k]), d)}
\* the sum of tf(t, d) * idf(t) over the tokens of the last query
DotProduct(d) ==
    SumSeq([k \in 1..Len(search.tokens) |->
               Get(Postings(system.inverted_index, search.tokens[k]), d, 0)
                   * Get(system.idf_scores, search.tokens[k], 0)])
\* sqrt(length) of a fixed-point score's divisor
SqrtOfLength(d) == ISqrt(Get(system.doc_lengths, d, 1) * Scale * Scale)

\* C19: text_search returns exactly one entry for each document that has a
\* posting for at least one expanded token and none for any other document;
\* the entry's score is the sum of tf(t, d) * idf(t) over the distinct
\* expanded tokens, divided by sqrt(length(d)). Stated of the call as it
\* returns, before any call of the ranker.
C19_ScoreIsNormalizedDotProduct ==
    (search.called /\ ~ranking.called) =>
        /\ IdsOf(search.results) = Matched
        /\ OncePerId(search.results)
        /\ \A i, j \in 1..Len(search.tokens) : search.tokens[i] = search.tokens[j] => i = j
        /\ \A k \in 1..Len(search.results) :
              LET d == search.results[k][1]
              IN search.results[k][2] =
                    Sign(DotProduct(d)) * ((Abs(DotProduct(d)) * Scale) \div SqrtOfLength(d))
\* a document of three tokens matched by two tokens of the query
C19_Witness ==
    /\ search.called
    /\ ~ranking.called
    /\ FullyLoaded
    /\ \E k \in 1..Len(search.results) :
          LET d == search.results[k][1]
          IN /\ Get(system.doc_lengths, d, 1) = 3
             /\ HasKey(Postings(system.inverted_index, "joy"), d)
             /\ HasKey(Postings(system.inverted_index, "fear"), d)
             /\ Cardinality(Range(search.tokens) \cap {"joy", "fear"}) = 2
             /\ search.results[k][2] # 0
             /\ Len(search.results) = 2

\* the token lists with the same distinct tokens as q, no longer than q
Arrangements(q) ==
    {r \in UNION {[1..n -> Range(q)] : n \in 1..Len(q)} : Range(r) = Range(q)}

\* C20: whatever the order of the raw tokens of a query and however often
\* each is typed, the set of expanded tokens is the same, and text_search
\* returns the same documents with the same scores (a token typed twice
\* contributes its tf * idf once). Stated of the call as it returns, before
\* any call of the ranker.
C20_ExpansionIsSetUnion ==
    (search.called /\ ~ranking.called) =>
        \A r \in Arrangements(search.query) :
            /\ \A l \in process_query(r) : Range(l) = Range(search.tokens)
            /\ \A l \in process_query(r) :
                  Range(text_search(system, l)) = Range(search.results)
\* "joy" typed twice, after "dread": the same score as for "joy dread"
C20_Witness ==
    /\ search.called
    /\ ~ranking.called
    /\ FullyLoaded
    /\ search.query = <<"dread", "joy", "joy">>
    /\ \E k \in 1..Len(search.results) :
          /\ search.results[k][2] # 0
          /\ HasKey(Postings(system.inverted_index, "joy"), search.results[k][1])
          /\ HasKey(Postings(system.inverted_index, "fear"), search.results[k][1])
          /\ <<search.results[k][1], search.results[k][2]>>
                \in Range(text_search(system, <<"joy", "dread", "fear">>))


\* ------------------------------------------------------------------------
\* Properties of the two tokenizers (SpecText)
\* ------------------------------------------------------------------------
BothTokenized == normalized.processed_tokens # <<>> /\ normalized.raw_tokens # <<>>

\* C15 as claimed: for every input string the token sequence of the query
\* tokenizer (before synonym expansion) equals the token sequence the corpus
\* processor produces for that string.
C15_Original_SameTokens ==
    BothTokenized => normalized.raw_tokens[1] = normalized.processed_tokens[1]


\* ------------------------------------------------------------------------
\* Properties of the evaluation harness (SpecEval)
\* ------------------------------------------------------------------------
\* the last case was scored (not skipped)
Scored == evaluation.seen > 0 /\ ~evaluation.case.skipped /\ ~evaluation.raised
\* the positions of the first n entries of the last list that are of a target book
HitsWithin(n) ==
    {i \in 1..Len(evaluation.case.final_results) :
        /\ i <= n
        /\ \E t \in 1..Len(evaluation.case.target_ids) :
              evaluation.case.final_results[i][1][1] = evaluation.case.target_ids[t]}
Least(S) == CHOOSE i \in S : \A j \in S : i <= j
\* the scores derived from a finite rank, and from no rank
DerivedFrom(rank) ==
    [rr |-> (Scale * Scale) \div (rank * Scale),
     is_success |-> IF rank <= TOP_K THEN Scale ELSE 0,
     ndcg |-> IF rank <= TOP_K THEN (Scale * Scale) \div Log2(rank + 1) ELSE 0]
DerivedFromNone == [rr |-> 0, is_success |-> 0, ndcg |-> 0]
CaseScores ==
    [rr |-> evaluation.case.rr, is_success |-> evaluation.case.is_success,
     ndcg |-> evaluation.case.ndcg]

\* C12 as claimed: the rank of a scored case is the 1-based position of the
\* first result of the full ranked list that is of a target book, infinity
\* only if the list has none; reciprocal rank = 1/rank (0 if absent),
\* Success@K = 1 iff rank <= K, nDCG@K = 1/log2(rank + 1) if rank <= K else 0.
C12_Original_RankInFullList ==
    Scored =>
        LET hits == HitsWithin(Len(evaluation.case.final_results))
        IN IF hits = {}
           THEN evaluation.case.rank = Inf /\ CaseScores = DerivedFromNone
           ELSE /\ evaluation.case.rank = Least(hits)
                /\ CaseScores = DerivedFrom(Least(hits))
\* C12: the rank of a scored case is the 1-based position of the first
\* result among the first 50 of the ranked list that is of a target book,
\* infinity if these have none; reciprocal rank = 1/rank (0 if absent),
\* Success@K = 1 iff rank <= K, nDCG@K = 1/log2(rank + 1) if rank <= K else 0.
C12_RankInScannedPrefix ==
    Scored =>
        LET hits == HitsWithin(TopScanned)
        IN IF hits = {}
           THEN evaluation.case.rank = Inf /\ CaseScores = DerivedFromNone
           ELSE /\ evaluation.case.rank = Least(hits)
                /\ CaseScores = DerivedFrom(Least(hits))
\* the first result of the target book is at position 51: no rank
C12_Witness ==
    /\ Scored
    /\ Len(evaluation.case.final_results) > TopScanned
    /\ evaluation.case.final_results[TopScanned + 1][1][1] = "2701"
    /\ evaluation.case.target_ids = <<"2701">>
    /\ evaluation.case.rank = Inf
    /\ evaluation.case.rr = 0

\* ------------------------------------------------------------------------
\* Further properties of the hybrid ranker (Spec)
\* ------------------------------------------------------------------------
\* the statistics of the target emotion have a std of exactly 0
FlatEmotion ==
    /\ HasKey(system.emotion_stats, ranking.emotion)
    /\ ~Get(system.emotion_stats, ranking.emotion, [nan |-> TRUE]).nan
    /\ Get(system.emotion_stats, ranking.emotion, [std |-> 1]).std = 0
\* the entries of a list whose id is in a set, in the order of the list
RECURSIVE IdsWithin(_, _)
IdsWithin(list, S) ==
    IF list = <<>> THEN <<>>
    ELSE IF Head(list)[1] \in S THEN <<Head(list)[1]>> \o IdsWithin(Tail(list), S)
    ELSE IdsWithin(Tail(list), S)

\* C21: when the std of the target emotion is 0 and a lexical list is given,
\* for text_weight >= 0 and any emotion_weight the ranker returns the retained
\* candidates in exactly the order of the lexical list, each with combined
\* score text_score * text_weight.
C21_FlatEmotionKeepsLexicalOrder ==
    (Ranked /\ FlatEmotion /\ ranking.text_results # <<>> /\ ranking.text_weight >= 0) =>
        /\ DictKeys(ranking.results)
              = IdsWithin(ranking.text_results, IdsOf(ranking.results))
        /\ \A k \in 1..Len(ranking.results) :
              ranking.results[k][2] =
                  FMul(Get(ranking.text_results, ranking.results[k][1], 0),
                       ranking.text_weight)
\* two retained candidates of a lexical list with non-zero scores, both with
\* a positive count of the flat emotion, and a non-zero emotion weight
C21_Witness ==
    /\ Ranked
    /\ FlatEmotion
    /\ FullyLoaded
    /\ ranking.emotion_weight # 0
    /\ ranking.text_weight > 0
    /\ Len(ranking.text_results) >= 2
    /\ Len(ranking.results) >= 2
    /\ \A k \in 1..Len(ranking.results) :
          /\ RawCount(ranking.results[k][1]) > 0
          /\ ranking.results[k][2] # 0

\* the last query had tokens, none of them matched, and its empty list was
\* passed to the ranker
UnknownQueryRanked ==
    /\ Ranked
    /\ search.called
    /\ search.tokens # <<>>
    /\ search.results = <<>>
    /\ ranking.text_results = <<>>

\* C29: when text_search found no match for a non-empty query and its empty
\* list is passed on, filter_by_emotion returns the discovery-mode list: one
\* entry for each document of doc_ids whose count of the target emotion is
\* >= min_score, with text score 0 (combined = max(0, z) * emotion_weight),
\* sorted by descending combined score, ties in doc_ids order.
C29_EmptyLexicalListIsDiscovery ==
    UnknownQueryRanked =>
        /\ IdsOf(ranking.results) =
              {d \in Range(system.doc_ids) :
                  HasVector(d) /\ RawCount(d) >= ranking.min_score}
        /\ OncePerId(ranking.results)
        /\ \A k \in 1..Len(ranking.results) :
              /\ ranking.results[k][3] = SignedZ(ranking.results[k][1])
              /\ ranking.results[k][2] =
                    FMul(Clamp(ranking.results[k][3]), ranking.emotion_weight)
        /\ \A i, j \in 1..Len(ranking.results) :
              i < j =>
                  /\ ranking.results[i][2] >= ranking.results[j][2]
                  /\ ranking.results[i][2] = ranking.results[j][2] =>
                        IndexIn(system.doc_ids, ranking.results[i][1])
                            < IndexIn(system.doc_ids, ranking.results[j][1])
\* an unknown word was searched and the ranker returned two documents, one
\* of them with a positive combined score
C29_Witness ==
    /\ UnknownQueryRanked
    /\ FullyLoaded
    /\ search.query = <<"zzz">>
    /\ Len(ranking.results) >= 2
    /\ ranking.results[1][2] > 0

\* ------------------------------------------------------------------------
\* Properties of the pipeline over sparse corpora (SpecSparse)
\* ------------------------------------------------------------------------
\* the index and the emotion results were both built (from the one corpus)
BothBuilt == index_file # <<>> /\ emotion_file # <<>>

\* C27: with the emotion results and the index built from the same corpus,
\* every document id of the emotion results has a length >= 1 in the length
\* table (an empty segment gets no vector), so neither generate_z_scores nor
\* filter_by_emotion divides by zero.
C27_NoDivisionByZero ==
    /\ BothBuilt =>
          /\ \A i \in 1..Len(emotion_file[1]) :
                /\ HasKey(index_file[1].doc_lengths, emotion_file[1][i][1])
                /\ Get(index_file[1].doc_lengths, emotion_file[1][i][1], 0) >= 1
          /\ ~generate_z_scores(emotion_file[1], index_file[1].doc_lengths).raised
    /\ ranking.called => ~ranking.raised
\* a corpus with an empty segment and a segment that has a vector, ranked
\* in discovery mode after the statistics were generated
C27_Witness ==
    /\ Ranked
    /\ FullyLoaded
    /\ \E i \in 1..Len(corpus) : corpus[i][2] = <<>>
    /\ \E i \in 1..Len(system.doc_lengths) : system.doc_lengths[i][2] = 0
    /\ ranking.text_results = <<>>
    /\ ranking.results # <<>>

\* ------------------------------------------------------------------------
\* Properties of the pipeline over corpora of MaxDocs documents (SpecWide)
\* ------------------------------------------------------------------------
\* the tokens of the last query that have a posting for a document
MatchedTokens(d) ==
    {k \in 1..Len(search.tokens) :
        HasKey(Postings(system.inverted_index, search.tokens[k]), d)}

\* C28: with N documents, idf_scores[t] is positive iff df(t) < N - 1, zero
\* iff df(t) = N - 1 and negative iff df(t) = N; a document all of whose
\* matched query terms occur in every document gets a negative score from
\* text_search.
C28_IdfSignByDocumentFrequency ==
    /\ IndexBuilt =>
          \A i \in 1..Len(index_file[1].idf_scores) :
              LET t == index_file[1].idf_scores[i][1]
                  idf == index_file[1].idf_scores[i][2]
                  N == Len(corpus)
              IN /\ idf > 0 <=> DocFreq(t) < N - 1
                 /\ idf = 0 <=> DocFreq(t) = N - 1
                 /\ idf < 0 <=> DocFreq(t) = N
    /\ (search.called /\ FullyLoaded /\ ~ranking.called) =>
          \A k \in 1..Len(search.results) :
              (\A m \in MatchedTokens(search.results[k][1]) :
                    DocFreq(search.tokens[m]) = Len(corpus))
                  => search.results[k][2] < 0
\* a query for a term of every document, every score negative
C28_Witness ==
    /\ search.called
    /\ FullyLoaded
    /\ ~ranking.called
    /\ Len(corpus) >= 3
    /\ Len(search.results) = Len(corpus)
    /\ \A k \in 1..Len(search.results) : search.results[k][2] < 0

\* a segment with at least one tagged token that has no marker in its window
HasUnnegatedTag(tokens) == \E e \in TagNames : Contributing(tokens, e) # {}
HitSegments == {corpus[i][1] : i \in {j \in 1..Len(corpus) : HasUnnegatedTag(corpus[j][2])}}
\* the densities of an emotion over the segments of HitSegments, in corpus order
RECURSIVE HitDensities(_, _)
HitDensities(docs, emo) ==
    IF docs = <<>> THEN <<>>
    ELSE IF HasUnnegatedTag(Head(docs)[2])
         THEN <<(Cardinality(Contributing(Head(docs)[2], emo)) * Scale * Scale)
                    \div (Len(Head(docs)[2]) * Scale)>> \o HitDensities(Tail(docs), emo)
    ELSE HitDensities(Tail(docs), emo)

IndexStateOf(c) ==
    IndexDocs([inverted_index |-> <<>>, doc_frequency |-> <<>>, doc_lengths |-> <<>>], c)
\* the tables as mappings, whatever the insertion order of their keys
PostingsMapping(inverted_index) ==
    {<<inverted_index[i][1], Range(inverted_index[i][2])>> : i \in 1..Len(inverted_index)}
IdfOfFrequencies(df, num_documents) ==
    {<<pair[1], Ln(num_documents, pair[2] + 1)>> : pair \in df}
TablesOf(st, num_documents) ==
    [inverted_index |-> PostingsMapping(st.inverted_index),
     doc_frequency |-> Range(st.doc_frequency),
     idf_scores |-> IdfOfFrequencies(Range(st.doc_frequency), num_documents),
     doc_lengths |-> Range(st.doc_lengths)]
\* the tables of two loop states over disjoint documents, merged: postings
\* and lengths united, document frequencies added
MergedTables(a, b, num_documents) ==
    LET terms == KeySet(a.inverted_index) \cup KeySet(b.inverted_index)
        df == {<<t, Get(a.doc_frequency, t, 0) + Get(b.doc_frequency, t, 0)>> : t \in terms}
    IN [inverted_index |->
            {<<t, Range(Get(a.inverted_index, t, <<>>))
                      \cup Range(Get(b.inverted_index, t, <<>>))>> : t \in terms},
        doc_frequency |-> df,
        idf_scores |-> IdfOfFrequencies(df, num_documents),
        doc_lengths |-> Range(a.doc_lengths) \cup Range(b.doc_lengths)]
\* the documents of c in ascending id order
RECURSIVE InIdOrder(_, _)
InIdOrder(c, k) ==
    IF k > Len(IdOrder) THEN <<>>
    ELSE (IF HasKey(c, IdOrder[k]) THEN <<<<IdOrder[k], Get(c, IdOrder[k], <<>>)>>>> ELSE <<>>)
             \o InIdOrder(c, k + 1)
\* the tables the sequential loop built, as stored
BuiltTables ==
    [inverted_index |-> PostingsMapping(index_file[1].inverted_index),
     doc_frequency |-> Range(IndexStateOf(corpus).doc_frequency),
     idf_scores |-> Range(index_file[1].idf_scores),
     doc_lengths |-> Range(index_file[1].doc_lengths)]

\* C25: the index build has no cross-document dependency: the documents in
\* any other order, or two disjoint subsets of them indexed independently
\* and merged, give the same postings (term -> document -> frequency),
\* document frequencies, IDF table and length table as the sequential loop.
\* The corpora of SpecBuild come in every insertion order: each is compared
\* with the build in id order, and each of its splits into the first k
\* documents and the rest with the merge of the two builds.
\* Stated of the index as the build stores it, before the later stages run.
C25_BuildIsOrderAndPartitionIndependent ==
    (IndexBuilt /\ emotion_file = <<>>) =>
        LET built == BuiltTables
        IN /\ TablesOf(IndexStateOf(InIdOrder(corpus, 1)), Len(corpus)) = built
           /\ \A k \in 0..Len(corpus) :
                 MergedTables(IndexStateOf(SubSeq(corpus, 1, k)),
                              IndexStateOf(SubSeq(corpus, k + 1, Len(corpus))),
                              Len(corpus)) = built
\* three documents not in id order, a term in two of them, and the build in
\* id order gives the stored index another key order
C25_Witness ==
    /\ IndexBuilt
    /\ emotion_file = <<>>
    /\ Len(corpus) = 3
    /\ DocFreq("joy") >= 2
    /\ InIdOrder(corpus, 1) # corpus
    /\ build_index(InIdOrder(corpus, 1)).inverted_index # index_file[1].inverted_index

\* ------------------------------------------------------------------------
\* Properties of the corpus processor (SpecCorpus)
\* ------------------------------------------------------------------------
UnreadableFiles ==
    {processor.file_paths[i][1] :
        i \in {j \in 1..Len(processor.file_paths) : ~processor.file_paths[j][2].readable}}
ReadableFiles ==
    {processor.file_paths[i][1] :
        i \in {j \in 1..Len(processor.file_paths) : processor.file_paths[j][2].readable}}
\* the documents the run warned about, and the failure counts it reported
WarnedFiles ==
    {processor.output[i].doc_id :
        i \in {j \in 1..Len(processor.output) : processor.output[j].kind = "Warning"}}
FailureCounts ==
    {processor.output[i].count :
        i \in {j \in 1..Len(processor.output) : processor.output[j].kind = "Failures"}}
\* the tokens the pipeline makes of a readable file
TokensOfFile(doc_id) ==
    process_text_pipeline(Get(processor.file_paths, doc_id, [raw_text |-> <<>>]).raw_text)

\* C24 as claimed: an unreadable document is skipped with a warning and an
\* incremented failure counter and the build continues: every other
\* document gets its postings, length and document frequency contribution
\* and the skipped document contributes to none of them.
C24_Original_SkippedWithCountedWarning ==
    processor.done =>
        /\ WarnedFiles = UnreadableFiles
        /\ UnreadableFiles # {} => FailureCounts = {Cardinality(UnreadableFiles)}
        /\ KeySet(corpus) = ReadableFiles
        /\ IndexBuilt =>
              /\ KeySet(index_file[1].doc_lengths) = ReadableFiles
              /\ \A d \in ReadableFiles :
                    Get(index_file[1].doc_lengths, d, 0 - 1) = Len(TokensOfFile(d))
              /\ \A i \in 1..Len(index_file[1].inverted_index) :
                    LET t == index_file[1].inverted_index[i][1]
                        posting == index_file[1].inverted_index[i][2]
                    IN /\ KeySet(posting) =
                             {d \in ReadableFiles : Occurrences(t, TokensOfFile(d)) > 0}
                       /\ \A d \in KeySet(posting) :
                             Get(posting, d, 0) = Occurrences(t, TokensOfFile(d))

\* ------------------------------------------------------------------------
\* Properties of the final report of the evaluation harness (SpecEval)
\* ------------------------------------------------------------------------
\* the per-case values of a logged outcome
PerCase(entry) == IF entry.rank = Inf THEN DerivedFromNone ELSE DerivedFrom(entry.rank)
\* the outcomes of the cases that were scored
ScoredEntries == SelectSeq(evaluation.log, LAMBDA entry : entry.kind # "SKIPPED")
SumOfValues(entries) ==
    [rr |-> SumSeq([i \in 1..Len(entries) |-> PerCase(entries[i]).rr]),
     is_success |-> SumSeq([i \in 1..Len(entries) |-> PerCase(entries[i]).is_success]),
     ndcg |-> SumSeq([i \in 1..Len(entries) |-> PerCase(entries[i]).ndcg])]
MeanOver(sum, n) == (sum * Scale) \div (n * Scale)

\* C22 as claimed: the reported MRR, Success@K (as a percentage) and nDCG@K
\* are each the sum of the per-case values divided by the number of cases of
\* the test-case list.
C22_Original_MeanOverAllCases ==
    (evaluation.reported /\ evaluation.log # <<>>) =>
        LET sums == SumOfValues(ScoredEntries)
            n == Len(evaluation.log)
        IN /\ evaluation.report # <<>>
           /\ evaluation.report[1].mrr = MeanOver(sums.rr, n)
           /\ evaluation.report[1].success_rate = MeanOver(sums.is_success, n) * 100
           /\ evaluation.report[1].ndcg = MeanOver(sums.ndcg, n)
\* C22: the reported MRR, Success@K (as a percentage) and nDCG@K are each
\* the sum of the per-case values divided by the number of cases that were
\* scored, the cases skipped for a target book not in the corpus not counted;
\* when no case was scored no aggregate is reported.
C22_MeanOverScoredCases ==
    evaluation.reported =>
        LET sums == SumOfValues(ScoredEntries)
            n == Len(ScoredEntries)
        IN IF n = 0 THEN evaluation.report = <<>>
           ELSE /\ evaluation.report # <<>>
                /\ evaluation.report[1].N = n
                /\ evaluation.report[1].mrr = MeanOver(sums.rr, n)
                /\ evaluation.report[1].success_rate = MeanOver(sums.is_success, n) * 100
                /\ evaluation.report[1].ndcg = MeanOver(sums.ndcg, n)
\* a list of two cases, one skipped and one found at rank 2: the reported
\* MRR is 1/2, not 1/4
C22_Witness ==
    /\ evaluation.reported
    /\ Len(evaluation.log) = 2
    /\ \E i, j \in 1..2 :
          /\ evaluation.log[i].kind = "SKIPPED"
          /\ evaluation.log[j] = [kind |-> "SUCCESS", rank |-> 2]
    /\ evaluation.report # <<>>
    /\ evaluation.report[1].mrr = Scale \div 2

\* C23 as claimed: a case that lacks the query, the emotion or the target
\* field is skipped and the harness does not abort.
C23_Original_MalformedCaseIsSkipped ==
    (evaluation.seen > 0 /\ RaisesKeyError(evaluation.case.case)) =>
        /\ ~evaluation.raised
        /\ evaluation.case.skipped

\* ------------------------------------------------------------------------
\* Properties of the harness over the system it loads (SpecHarness)
\* ------------------------------------------------------------------------
\* the system of the design loaded from the same files
DesignSystem == load_data(NewSystem, index_file, emotion_file, stats_file)
\* the lists the query engine and the hybrid ranker of the design return for
\* the last case, with the ranker's default weights: one per order of the
\* expanded tokens
DesignLists ==
    {filter_by_emotion(DesignSystem,
                       text_search(DesignSystem, tokens),
                       Get(evaluation.case.case, "emotion", ""), 0, Fix(1), Fix(1)).results :
        tokens \in process_query(Get(evaluation.case.case, "query", <<>>))}

\* C26 as claimed: the ranked list the harness scores for a case is the list
\* of the query engine followed by the hybrid ranker of the design: expanded
\* token tf*idf / sqrt(length), then combined = text_score * text_weight +
\* max(0, z) * emotion_weight with z against the corpus statistics.
C26_Original_HarnessScoresDesignRanker ==
    (Scored /\ index_file # <<>> /\ emotion_file # <<>> /\ stats_file # <<>>) =>
        evaluation.case.final_results \in DesignLists

==========================================================================
